---- MODULE Spec2Model ----
(***************************************************************************)
(* A model of the flight-search client of Google-Flight-Clone.             *)
(*                                                                         *)
(* Two revisions of FlightApiService live in the repository:               *)
(*   - src/google-flight/src/service/FlightService.ts, the one the         *)
(*     components import ("service" below): searchFlights validates the    *)
(*     parameters and the date, then performSearchWithRetry retries an     *)
(*     incomplete search with a backoff and falls back to alternative      *)
(*     parameters (retrySearchWithAlternatives);                           *)
(*   - src/unnamed/part_000 ("unnamed" below): searchFlights validates     *)
(*     the parameters only and issues a single request.                    *)
(* Definitions of the second revision carry the suffix _p0.                *)
(*                                                                         *)
(* Encoding of JavaScript values:                                          *)
(*   - a string field that is undefined, null or "" is "" (all falsy);     *)
(*   - a number field that is undefined or 0 is 0 (both falsy);            *)
(*   - an optional array is [present |-> BOOLEAN, items |-> sequence];     *)
(*   - a travel date "YYYY-MM-DD" is the number of its day (>= 1), the     *)
(*     missing date is 0 and a text that Date cannot parse is -1;          *)
(*   - instants are hours since the epoch, UTC; the local offset tz is     *)
(*     local time minus UTC, in hours; delays are milliseconds.            *)
(***************************************************************************)
EXTENDS Integers, Sequences, FiniteSets, TLC

(***************************************************************************)
(* Bounds of the model                                                     *)
(***************************************************************************)
\* the UTC day on which the search is made
EpochDay == 10
\* travel dates offered to searchFlights: EpochDay - 1 .. EpochDay + MaxDaysAhead
MaxDaysAhead == 2
\* how many timer ticks past the armed delay the clock may run
MaxOverrun == 1
\* how many raw records an airport lookup may return
MaxAirports == 2
\* how many raw itineraries a batch handed to transformFlights may hold
MaxBatch == 2
\* how many flights a list handed to buildFilterStats may hold
MaxFlights == 2
\* how many lookups are started through one useAirportSearch hook
MaxLookups == 2

(***************************************************************************)
(* Sequence helpers (Array.prototype.map / filter / reduce, Set, Math.min) *)
(***************************************************************************)
\* Mutant: only the first element counts
SumSeq_first(s) == IF s = <<>> THEN 0 ELSE Head(s)

RECURSIVE SumSeq(_)
SumSeq(s) == IF s = <<>> THEN 0 ELSE Head(s) + SumSeq(Tail(s))

RECURSIVE FlattenSeq(_)
FlattenSeq(ss) == IF ss = <<>> THEN <<>> ELSE Head(ss) \o FlattenSeq(Tail(ss))

InSeq(x, s) == \E i \in 1..Len(s) : s[i] = x

\* [...new Set(s)]: distinct elements in order of first occurrence
RECURSIVE Distinct(_)
Distinct(s) ==
  IF s = <<>> THEN <<>>
  ELSE LET front == Distinct(SubSeq(s, 1, Len(s) - 1))
           last  == s[Len(s)]
       IN IF InSeq(last, front) THEN front ELSE Append(front, last)

MinOf(s) == CHOOSE m \in {s[i] : i \in 1..Len(s)} : \A i \in 1..Len(s) : m <= s[i]
MaxOf(s) == CHOOSE m \in {s[i] : i \in 1..Len(s)} : \A i \in 1..Len(s) : m >= s[i]

\* Mutant: zero passes the filter
IsPositive_orZero(n) == n >= 0

IsPositive(n) == n > 0
IsNamed(name) == name # "Unknown" /\ name # ""

(***************************************************************************)
(* The values a price amount can hold. A payload is untyped: price.raw may *)
(* be a number, a text, a boolean or missing. Each value carries what      *)
(* Number(value) gives (num, or nan) and what String(value) gives (text).  *)
(***************************************************************************)
JsNumber(n)  == [type |-> "number", num |-> n, nan |-> FALSE, text |-> ToString(n)]
JsText(text, num, nan) == [type |-> "string", num |-> num, nan |-> nan, text |-> text]
JsBoolean(b) == [type |-> "boolean", num |-> IF b THEN 1 ELSE 0, nan |-> FALSE,
                 text |-> IF b THEN "true" ELSE "false"]
JsUndefined  == [type |-> "undefined", num |-> 0, nan |-> TRUE, text |-> "undefined"]

\* The truthiness || tests
Truthy(v) ==
  CASE v.type = "number"  -> v.num # 0
    [] v.type = "string"  -> v.text # ""
    [] v.type = "boolean" -> v.num = 1
    [] OTHER -> FALSE

\* The p > 0 of the price filter: the value is read as a number, NaN fails
IsPositiveValue(v) == ~v.nan /\ IsPositive(v.num)

(***************************************************************************)
(* FlightApiError and the error interceptor                                *)
(***************************************************************************)
\* new FlightApiError(message, status, code); classified marks instanceof FlightApiError
FlightApiError(message, status, code) ==
  [classified |-> TRUE, message |-> message, status |-> status, code |-> code]

\* The closed set of kinds of spec section 4.1
ErrorKinds ==
  {"UNAUTHORIZED", "FORBIDDEN", "RATE_LIMIT", "SERVER_ERROR", "API_ERROR",
   "NETWORK_ERROR", "UNKNOWN_ERROR", "INVALID_QUERY", "INVALID_PARAMS",
   "INVALID_DATE", "NO_FLIGHTS_FOUND", "SEARCH_INCOMPLETE", "SEARCH_ERROR",
   "INVALID_RESPONSE"}

\* Mutant: the sent request is looked at before the received response
handleError_requestFirst(err) ==
  IF err.hasRequest
  THEN [classified |-> TRUE, message |-> "Network error", status |-> 0,
        code |-> "NETWORK_ERROR"]
  ELSE [classified |-> TRUE, message |-> "Unexpected error", status |-> 0,
        code |-> "UNKNOWN_ERROR"]

\* An AxiosError: err.hasResponse (error.response set, with status and the body's
\* message), err.hasRequest (error.request set), err.message (error.message)
handleError(err) ==
  IF err.hasResponse THEN
    CASE err.status = 401 -> FlightApiError("Invalid API key", 401, "UNAUTHORIZED")
      [] err.status = 403 -> FlightApiError("API access forbidden", 403, "FORBIDDEN")
      [] err.status = 429 -> FlightApiError("Rate limit exceeded", 429, "RATE_LIMIT")
      [] err.status = 500 -> FlightApiError("Server error", 500, "SERVER_ERROR")
      [] OTHER ->
           FlightApiError(IF err.bodyMessage # "" THEN err.bodyMessage
                          ELSE "API error: " \o ToString(err.status),
                          err.status, "API_ERROR")
  ELSE IF err.hasRequest THEN FlightApiError("Network error", 0, "NETWORK_ERROR")
  ELSE FlightApiError("Unexpected error", 0, "UNKNOWN_ERROR")

handleError_p0(err) ==
  IF err.hasResponse THEN
    CASE err.status = 401 ->
           FlightApiError("Invalid API key - please check your VITE_RAPIDAPI_KEY",
                          401, "UNAUTHORIZED")
      [] err.status = 403 ->
           FlightApiError("API access forbidden - check your subscription",
                          403, "FORBIDDEN")
      [] err.status = 429 ->
           FlightApiError("Rate limit exceeded - wait before retrying",
                          429, "RATE_LIMIT")
      [] err.status = 500 ->
           FlightApiError("Server error - try again later", 500, "SERVER_ERROR")
      [] OTHER ->
           FlightApiError(IF err.bodyMessage # "" THEN err.bodyMessage
                          ELSE "API error: " \o ToString(err.status),
                          err.status, "API_ERROR")
  ELSE IF err.hasRequest THEN
    FlightApiError("Network error: " \o err.message
                     \o ". Check your internet connection.", 0, "NETWORK_ERROR")
  ELSE FlightApiError("Unexpected error: " \o err.message, 0, "UNKNOWN_ERROR")

(***************************************************************************)
(* Normalisation of a flight payload, FlightService.ts                     *)
(***************************************************************************)
emptyFilterStats ==
  [duration |-> [min |-> 0, max |-> 0], price |-> [min |-> 0, max |-> 0],
   airlines |-> <<>>, stops |-> <<>>]

\* The outcome of a transform that may throw: [ok |-> TRUE, value |-> v] or a throw
Thrown == [ok |-> FALSE]
Value(v) == [ok |-> TRUE, value |-> v]

\* transformLeg(leg, index); index is the 0-based position, nonce.now[index + 1] is
\* what Date.now() answers when this leg's fallback id is made
transformLeg(leg, index, nonce) ==
  IF leg.isNull THEN Thrown
  ELSE
    LET originId      == IF leg.origin.present THEN leg.origin.id ELSE ""
        destinationId == IF leg.destination.present THEN leg.destination.id ELSE ""
    IN IF originId = "" /\ destinationId = "" THEN Thrown
       ELSE Value(
         [id |-> IF leg.id # "" THEN leg.id
                 ELSE "leg-" \o ToString(index) \o "-" \o ToString(nonce.now[index + 1]),
          origin |-> [iata |-> originId,
                      name |-> IF leg.origin.present THEN leg.origin.name ELSE "",
                      city |-> IF leg.origin.present THEN leg.origin.city ELSE "",
                      country |-> IF leg.origin.present THEN leg.origin.country ELSE ""],
          destination |->
                     [iata |-> destinationId,
                      name |-> IF leg.destination.present THEN leg.destination.name ELSE "",
                      city |-> IF leg.destination.present THEN leg.destination.city ELSE "",
                      country |-> IF leg.destination.present
                                  THEN leg.destination.country ELSE ""],
          departure |-> leg.departure,
          arrival |-> leg.arrival,
          duration |-> leg.durationInMinutes,
          airline |-> [name |-> IF leg.carrierName # "" THEN leg.carrierName ELSE "Unknown",
                       logo |-> leg.carrierLogo,
                       iata |-> leg.carrierIata],
          aircraft |-> IF leg.operatingCarrier # "" THEN leg.operatingCarrier ELSE "Unknown",
          flightNumber |-> leg.flightNumber])

\* The id and the price transformItinerary writes into the raw itinerary; nonce.now[0]
\* and nonce.random[0] are what Date.now() and Math.random() answer for the id
fallbackId(itinerary, nonce) ==
  IF itinerary.id # "" THEN itinerary.id
  ELSE "flight-" \o ToString(nonce.now[0]) \o "-" \o ToString(nonce.random[0])

fallbackPrice(itinerary) ==
  IF itinerary.price.present THEN itinerary.price
  ELSE [present |-> TRUE, raw |-> JsNumber(0), currency |-> "USD",
        formatted |-> "Price unavailable"]

\* price.raw || 0: any truthy raw is passed on as it is
rawAmount(price) == IF Truthy(price.raw) THEN price.raw ELSE JsNumber(0)

\* purchaseLinks?.[0]
firstLink(itinerary) ==
  IF Len(itinerary.purchaseLinks) > 0 THEN itinerary.purchaseLinks[1]
  ELSE [url |-> "", providerId |-> "", isAirline |-> FALSE]

\* transformItinerary: [ok |-> FALSE] stands for the null it returns; nonce holds the
\* readings of the clock and of the random source made for this itinerary
transformItinerary(itinerary, nonce) ==
  IF itinerary.isNull THEN Thrown
  ELSE IF ~itinerary.legs.present \/ Len(itinerary.legs.items) = 0 THEN Thrown
  ELSE
    LET price == fallbackPrice(itinerary)
        legs  == [i \in 1..Len(itinerary.legs.items) |->
                    transformLeg(itinerary.legs.items[i], i - 1, nonce)]
        currency == IF price.currency # "" THEN price.currency ELSE "USD"
    IN IF \E i \in 1..Len(legs) : ~legs[i].ok THEN Thrown
       ELSE
         LET transformedLegs == [i \in 1..Len(legs) |-> legs[i].value]
         IN Value(
           [id |-> fallbackId(itinerary, nonce),
            legs |-> transformedLegs,
            price |-> [amount |-> rawAmount(price),
                       currency |-> currency,
                       formatted |-> IF price.formatted # "" THEN price.formatted
                                     ELSE rawAmount(price).text \o " " \o currency],
            duration |-> SumSeq([i \in 1..Len(transformedLegs) |->
                                   transformedLegs[i].duration]),
            stops |-> IF Len(transformedLegs) - 1 > 0 THEN Len(transformedLegs) - 1 ELSE 0,
            isDirectFlight |-> Len(transformedLegs) = 1,
            deepLink |-> firstLink(itinerary).url,
            agent |-> [name |-> IF firstLink(itinerary).providerId # ""
                                THEN firstLink(itinerary).providerId ELSE "Unknown",
                       isAirline |-> firstLink(itinerary).isAirline]])

buildFilterStats(flights) ==
  IF Len(flights) = 0 THEN emptyFilterStats
  ELSE
    LET durations == SelectSeq([i \in 1..Len(flights) |-> flights[i].duration], IsPositive)
        amounts   == SelectSeq([i \in 1..Len(flights) |-> flights[i].price.amount],
                               IsPositiveValue)
        prices    == [i \in 1..Len(amounts) |-> amounts[i].num]
        airlines  == Distinct(FlattenSeq(
                       [i \in 1..Len(flights) |->
                          SelectSeq([j \in 1..Len(flights[i].legs) |->
                                       flights[i].legs[j].airline.name], IsNamed)]))
        stops     == Distinct([i \in 1..Len(flights) |-> flights[i].stops])
    IN [duration |-> IF Len(durations) > 0
                     THEN [min |-> MinOf(durations), max |-> MaxOf(durations)]
                     ELSE [min |-> 0, max |-> 0],
        price |-> IF Len(prices) > 0
                  THEN [min |-> MinOf(prices), max |-> MaxOf(prices)]
                  ELSE [min |-> 0, max |-> 0],
        airlines |-> airlines,
        stops |-> stops]

\* Mutant: the empty response forgets the payload's searchId
createEmptyResponse_noSearchId(data) ==
  [itineraries |-> <<>>, status |-> "success", filterStats |-> emptyFilterStats,
   context |-> [totalResults |-> 0, searchId |-> ""]]

\* The response for a payload without a usable itinerary list
createEmptyResponse(data) ==
  [itineraries |-> <<>>, status |-> "success", filterStats |-> emptyFilterStats,
   context |-> [totalResults |-> 0,
                searchId |-> IF data.isNull THEN "" ELSE data.searchId]]

\* data?.data?.itineraries, data?.itineraries, data?.results: the first that is an array
locateItineraries(data) ==
  IF data.isNull THEN [present |-> FALSE, items |-> <<>>]
  ELSE IF data.hasData /\ data.nested.present THEN data.nested
  ELSE IF data.itineraries.present THEN data.itineraries
  ELSE IF data.results.present THEN data.results
  ELSE [present |-> FALSE, items |-> <<>>]

IsOk(r) == r.ok

\* Mutant: the failure flag does not stop the normalisation
transformFlights_unflagged(data, nonce) ==
  IF ~locateItineraries(data).present THEN createEmptyResponse(data)
  ELSE
    LET raw == locateItineraries(data).items
        mapped == SelectSeq([i \in 1..Len(raw) |-> transformItinerary(raw[i], nonce[i])],
                            IsOk)
        validFlights == [i \in 1..Len(mapped) |-> mapped[i].value]
    IN [itineraries |-> validFlights,
        status |-> "success",
        filterStats |-> IF Len(validFlights) > 0 THEN buildFilterStats(validFlights)
                        ELSE emptyFilterStats,
        context |-> [totalResults |-> Len(validFlights),
                     searchId |-> IF data.searchId # "" THEN data.searchId
                                  ELSE IF data.hasData THEN data.dataSearchId ELSE ""]]

\* transformFlights(data); nonce[i] holds the readings made for the i-th raw itinerary
transformFlights(data, nonce) ==
  IF ~data.isNull /\ data.status = "false" THEN createEmptyResponse(data)
  ELSE IF ~locateItineraries(data).present THEN createEmptyResponse(data)
  ELSE
    LET raw == locateItineraries(data).items
        mapped == SelectSeq([i \in 1..Len(raw) |-> transformItinerary(raw[i], nonce[i])],
                            IsOk)
        transformedItineraries == [i \in 1..Len(mapped) |-> mapped[i].value]
        validFlights == transformedItineraries
    IN [itineraries |-> validFlights,
        status |-> "success",
        filterStats |-> IF Len(validFlights) > 0 THEN buildFilterStats(validFlights)
                        ELSE emptyFilterStats,
        context |-> [totalResults |-> Len(transformedItineraries),
                     searchId |-> IF data.searchId # "" THEN data.searchId
                                  ELSE IF data.hasData THEN data.dataSearchId ELSE ""]]

\* The raw itinerary as transformItinerary leaves it: the fallback id is written
\* before the legs are looked at, the fallback price after
itineraryAfter(itinerary, nonce) ==
  IF itinerary.isNull THEN itinerary
  ELSE IF ~itinerary.legs.present \/ Len(itinerary.legs.items) = 0
  THEN [itinerary EXCEPT !.id = fallbackId(itinerary, nonce)]
  ELSE [itinerary EXCEPT !.id = fallbackId(itinerary, nonce),
                         !.price = fallbackPrice(itinerary)]

\* The raw payload as transformFlights of FlightService.ts leaves it
payloadAfter(data, nonce) ==
  IF data.isNull \/ data.status = "false" \/ ~locateItineraries(data).present THEN data
  ELSE
    LET after(list) == [list EXCEPT !.items =
                          [i \in 1..Len(list.items) |-> itineraryAfter(list.items[i], nonce[i])]]
    IN IF data.hasData /\ data.nested.present
       THEN [data EXCEPT !.nested = after(data.nested)]
       ELSE IF data.itineraries.present
       THEN [data EXCEPT !.itineraries = after(data.itineraries)]
       ELSE [data EXCEPT !.results = after(data.results)]

(***************************************************************************)
(* Normalisation of a flight payload, unnamed/part_000                     *)
(***************************************************************************)
isValidItinerary(itinerary) ==
  /\ ~itinerary.isNull
  /\ itinerary.id # ""
  /\ itinerary.legs.present
  /\ Len(itinerary.legs.items) > 0
  /\ itinerary.price.present
  /\ itinerary.price.raw.type = "number"

transformLeg_p0(leg) ==
  IF leg.isNull \/ ~leg.origin.present \/ ~leg.destination.present
     \/ leg.departure = "" \/ leg.arrival = ""
  THEN Thrown
  ELSE Value(
    [id |-> IF leg.id # "" THEN leg.id
            ELSE (IF leg.origin.id # "" THEN leg.origin.id ELSE "unknown") \o "-"
                 \o (IF leg.destination.id # "" THEN leg.destination.id ELSE "unknown"),
     origin |-> [iata |-> leg.origin.id, name |-> leg.origin.name,
                 city |-> leg.origin.city, country |-> leg.origin.country],
     destination |-> [iata |-> leg.destination.id, name |-> leg.destination.name,
                      city |-> leg.destination.city, country |-> leg.destination.country],
     departure |-> leg.departure,
     arrival |-> leg.arrival,
     duration |-> leg.durationInMinutes,
     airline |-> [name |-> IF leg.carrierName # "" THEN leg.carrierName ELSE "Unknown",
                  logo |-> leg.carrierLogo,
                  iata |-> leg.carrierIata],
     aircraft |-> IF leg.operatingCarrier # "" THEN leg.operatingCarrier ELSE "Unknown",
     flightNumber |-> leg.flightNumber])

\* [ok |-> FALSE, thrown |-> FALSE] is the null of an invalid itinerary,
\* [ok |-> FALSE, thrown |-> TRUE] the Error a leg raised (transformFlights catches it)
transformItinerary_p0(itinerary) ==
  IF ~isValidItinerary(itinerary) THEN [ok |-> FALSE, thrown |-> FALSE]
  ELSE
    LET legs == [i \in 1..Len(itinerary.legs.items) |->
                   transformLeg_p0(itinerary.legs.items[i])]
        currency == IF itinerary.price.currency # "" THEN itinerary.price.currency
                    ELSE "USD"
    IN IF \E i \in 1..Len(legs) : ~legs[i].ok THEN [ok |-> FALSE, thrown |-> TRUE]
       ELSE
         LET transformedLegs == [i \in 1..Len(legs) |-> legs[i].value]
         IN Value(
           [id |-> itinerary.id,
            legs |-> transformedLegs,
            price |-> [amount |-> rawAmount(itinerary.price),
                       currency |-> currency,
                       formatted |-> IF itinerary.price.formatted # ""
                                     THEN itinerary.price.formatted
                                     ELSE itinerary.price.raw.text \o " " \o currency],
            duration |-> SumSeq([i \in 1..Len(transformedLegs) |->
                                   transformedLegs[i].duration]),
            stops |-> IF Len(transformedLegs) - 1 > 0 THEN Len(transformedLegs) - 1 ELSE 0,
            isDirectFlight |-> Len(transformedLegs) = 1,
            deepLink |-> firstLink(itinerary).url,
            agent |-> [name |-> IF firstLink(itinerary).providerId # ""
                                THEN firstLink(itinerary).providerId ELSE "Unknown",
                       isAirline |-> firstLink(itinerary).isAirline]])

IsSellable(flight) == flight.duration > 0 /\ IsPositiveValue(flight.price.amount)

transformFlights_p0(data) ==
  IF ~locateItineraries(data).present THEN createEmptyResponse(data)
  ELSE
    LET raw == locateItineraries(data).items
        mapped == SelectSeq([i \in 1..Len(raw) |-> transformItinerary_p0(raw[i])], IsOk)
        transformedItineraries == [i \in 1..Len(mapped) |-> mapped[i].value]
        validFlights == SelectSeq(transformedItineraries, IsSellable)
    IN [itineraries |-> validFlights,
        status |-> "success",
        filterStats |-> IF Len(validFlights) > 0 THEN buildFilterStats(validFlights)
                        ELSE emptyFilterStats,
        context |-> [totalResults |-> Len(transformedItineraries),
                     searchId |-> IF data.searchId # "" THEN data.searchId
                                  ELSE IF data.hasData THEN data.dataSearchId ELSE ""]]

(***************************************************************************)
(* Normalisation of an airport record (cleanAirport)                       *)
(* The texts cleanAirport inspects are sequences of UTF-16 code units, the *)
(* numbers charCodeAt gives (65 for "A", 44 for ",", 11 for the vertical   *)
(* tab, 12288 for the ideographic space), <<>> standing for a missing or   *)
(* empty text.                                                             *)
(***************************************************************************)
\* [A-Z]: the code units of "A" to "Z"
UpperLetters == 65..90

\* /^[A-Z]{3}$/.test(text)
isIataCode(text) == Len(text) = 3 /\ \A i \in 1..3 : text[i] \in UpperLetters

\* a || b for texts
OrElse(a, b) == IF a # <<>> THEN a ELSE b

\* The code units \s and trim() remove (WhiteSpace and LineTerminator of ECMAScript):
\* U+0009 tab, U+000A line feed, U+000B vertical tab, U+000C form feed, U+000D
\* carriage return, U+0020 space, U+00A0 no-break space, U+1680, U+2000 to U+200A,
\* U+2028 line separator, U+2029 paragraph separator, U+202F, U+205F, U+3000
\* ideographic space, U+FEFF byte order mark
WhiteSpace ==
  (9..13) \cup {32, 160, 5760} \cup (8192..8202)
    \cup {8232, 8233, 8239, 8287, 12288, 65279}

\* text.replace(/^\s*/, "")
RECURSIVE TrimStart(_)
TrimStart(text) ==
  IF text # <<>> /\ Head(text) \in WhiteSpace THEN TrimStart(Tail(text)) ELSE text

\* text.trimEnd()
RECURSIVE TrimEnd(_)
TrimEnd(text) ==
  IF text # <<>> /\ text[Len(text)] \in WhiteSpace
  THEN TrimEnd(SubSeq(text, 1, Len(text) - 1)) ELSE text

\* String.prototype.trim
Trim(text) == TrimEnd(TrimStart(text))

\* text.replace(/^,\s*/, ""): 44 is the comma
stripLeadingComma(text) ==
  IF text # <<>> /\ Head(text) = 44 THEN TrimStart(Tail(text)) ELSE text

\* text.split(",")
RECURSIVE SplitComma(_)
SplitComma(text) ==
  IF \E i \in 1..Len(text) : text[i] = 44
  THEN LET k == CHOOSE i \in 1..Len(text) :
                  text[i] = 44 /\ \A j \in 1..(i - 1) : text[j] # 44
       IN <<SubSeq(text, 1, k - 1)>> \o SplitComma(SubSeq(text, k + 1, Len(text)))
  ELSE <<text>>

\* cleanAirport of FlightService.ts: [ok |-> FALSE] stands for null
cleanAirport(airport) ==
  IF airport.isNull THEN Thrown
  ELSE
    LET iata == OrElse(airport.skyId, OrElse(airport.navSkyId,
                  OrElse(airport.iata, airport.code)))
        name == OrElse(airport.title, OrElse(airport.localizedName, airport.name))
    IN IF iata = <<>> \/ name = <<>> \/ ~isIataCode(iata) THEN Thrown
       ELSE
         LET subtitle == airport.subtitle
             city0    == OrElse(airport.city, airport.cityName)
             country0 == OrElse(airport.country, airport.countryName)
             hasComma == \E i \in 1..Len(subtitle) : subtitle[i] = 44
             parts    == [i \in 1..Len(SplitComma(subtitle)) |->
                            Trim(SplitComma(subtitle)[i])]
             city     == IF subtitle # <<>> /\ hasComma
                         THEN (IF Len(parts) >= 2 THEN OrElse(city0, parts[1]) ELSE city0)
                         ELSE IF subtitle # <<>> /\ city0 = <<>> /\ country0 = <<>>
                         THEN subtitle ELSE city0
             country  == IF subtitle # <<>> /\ hasComma /\ Len(parts) >= 2
                         THEN OrElse(country0, parts[2]) ELSE country0
         IN Value([iata |-> iata,
                   name |-> Trim(Trim(stripLeadingComma(name))),
                   city |-> Trim(city),
                   country |-> Trim(country)])

\* cleanAirport of unnamed/part_000: the same Airport, with skyId and entityId
cleanAirport_p0(airport) ==
  IF ~cleanAirport(airport).ok THEN Thrown
  ELSE Value([iata |-> cleanAirport(airport).value.iata,
              name |-> cleanAirport(airport).value.name,
              city |-> cleanAirport(airport).value.city,
              country |-> cleanAirport(airport).value.country,
              skyId |-> OrElse(airport.skyId, airport.navSkyId),
              entityId |-> OrElse(airport.navEntityId, airport.entityId)])

\* response.data.data.map(cleanAirport).filter(Boolean)
cleanAirports(records) ==
  LET mapped == SelectSeq([i \in 1..Len(records) |-> cleanAirport(records[i])], IsOk)
  IN [i \in 1..Len(mapped) |-> mapped[i].value]

cleanAirports_p0(records) ==
  LET mapped == SelectSeq([i \in 1..Len(records) |-> cleanAirport_p0(records[i])], IsOk)
  IN [i \in 1..Len(mapped) |-> mapped[i].value]

(***************************************************************************)
(* Search parameters, dates and request parameters                         *)
(***************************************************************************)
\* new Date(dateStr): a date-only ISO text is midnight UTC of its day; NaN otherwise
DateParse(dateStr) ==
  IF dateStr >= 1 THEN [nan |-> FALSE, t |-> dateStr * 24] ELSE [nan |-> TRUE, t |-> 0]

\* date < instant on Date values: false whenever the date is NaN
DateBefore(date, instant) == ~date.nan /\ date.t < instant

\* new Date() followed by setHours(0, 0, 0, 0): local midnight of the local day, in UTC
LocalMidnight(nowHour, offset) == ((nowHour + offset) \div 24) * 24 - offset

\* toISOString().split("T")[0]: the UTC day of an instant
IsoDay(instant) == instant \div 24

\* The local calendar day of an instant
LocalDay(instant, offset) == (instant + offset) \div 24

\* Mutant: the date is moved whatever it is
adjustDate_always(dateStr, nowHour) == IsoDay(nowHour + 24 + 7 * 24)

adjustDate(dateStr, nowHour) ==
  LET date     == DateParse(dateStr)
      tomorrow == nowHour + 24
  IN IF DateBefore(date, tomorrow) THEN IsoDay(tomorrow + 7 * 24) ELSE dateStr

\* The params object of api.get in performSearchWithRetry and retrySearchWithAlternatives
requestParams(params) ==
  [originSkyId |-> params.originSkyId,
   destinationSkyId |-> params.destinationSkyId,
   originEntityId |-> params.originEntityId,
   destinationEntityId |-> params.destinationEntityId,
   date |-> params.date,
   returnDate |-> params.returnDate,
   cabinClass |-> IF params.cabinClass # "" THEN params.cabinClass ELSE "economy",
   adults |-> IF params.adults # 0 THEN params.adults ELSE 1,
   children |-> params.children,
   infants |-> params.infants,
   sortBy |-> IF params.sortBy # "" THEN params.sortBy ELSE "price_low",
   currency |-> IF params.currency # "" THEN params.currency ELSE "USD",
   market |-> IF params.market # "" THEN params.market ELSE "US",
   countryCode |-> IF params.countryCode # "" THEN params.countryCode ELSE "US"]

buildRequestParams_p0(params) ==
  [originSkyId |-> params.originSkyId,
   destinationSkyId |-> params.destinationSkyId,
   originEntityId |-> params.originEntityId,
   destinationEntityId |-> params.destinationEntityId,
   date |-> params.date,
   returnDate |-> params.returnDate,
   cabinClass |-> IF params.cabinClass # "" THEN params.cabinClass ELSE "economy",
   adults |-> IF params.adults # 0 THEN params.adults ELSE 1,
   children |-> params.children,
   infants |-> params.infants,
   sortBy |-> IF params.sortBy # "" THEN params.sortBy ELSE "price_low",
   currency |-> IF params.currency # "" THEN params.currency ELSE "USD",
   market |-> IF params.market # "" THEN params.market ELSE "US",
   countryCode |-> IF params.countryCode # "" THEN params.countryCode ELSE "US"]

\* Mutant: the first two alternatives in the other order
alternatives_swapped(params, nowHour) ==
  << [params EXCEPT !.originEntityId = "", !.destinationEntityId = ""],
     [params EXCEPT !.originEntityId = params.originSkyId \o "ENTY",
                    !.destinationEntityId = params.destinationSkyId \o "ENTY"],
     [params EXCEPT !.date = adjustDate(params.date, nowHour)] >>

\* The three alternative parameter sets of retrySearchWithAlternatives, in order
alternatives(params, nowHour) ==
  << [params EXCEPT !.originEntityId = params.originSkyId \o "ENTY",
                    !.destinationEntityId = params.destinationSkyId \o "ENTY"],
     [params EXCEPT !.originEntityId = "", !.destinationEntityId = ""],
     [params EXCEPT !.date = adjustDate(params.date, nowHour)] >>

\* The first check of searchFlights, and validateSearchParams of the second revision
missingParams(params) ==
  params.originSkyId = "" \/ params.destinationSkyId = "" \/ params.date = 0

\* The second check of searchFlights: searchDate < today
dateInPast(params, nowHour, offset) ==
  DateBefore(DateParse(params.date), LocalMidnight(nowHour, offset))

(***************************************************************************)
(* The inputs the model draws: parameters, clock, payloads, failures       *)
(***************************************************************************)
\* Hours of the UTC day at which the search runs, and local offsets from UTC
NowHours  == {2, 22}
TzOffsets == {-5, 0, 5}

\* 0: no date; -1: a text Date cannot parse; else the ISO day
DateChoices == {0, -1} \cup ((EpochDay - 1)..(EpochDay + MaxDaysAhead))

\* The optional parameters: all left out, all given, and entity ids that are the
\* sky id followed by ENTY (both of them, or the origin's alone)
OptionalChoices ==
  { [originEntityId |-> "", destinationEntityId |-> "", cabinClass |-> "",
     adults |-> 0, currency |-> ""],
    [originEntityId |-> "95565050", destinationEntityId |-> "95565058",
     cabinClass |-> "business", adults |-> 2, currency |-> "EUR"],
    [originEntityId |-> "LHRENTY", destinationEntityId |-> "JFKENTY",
     cabinClass |-> "", adults |-> 0, currency |-> ""],
    [originEntityId |-> "LHRENTY", destinationEntityId |-> "95565058",
     cabinClass |-> "", adults |-> 0, currency |-> ""] }

ParamChoices ==
  { [originSkyId |-> o, destinationSkyId |-> d,
     originEntityId |-> x.originEntityId, destinationEntityId |-> x.destinationEntityId,
     date |-> dt, returnDate |-> 0, cabinClass |-> x.cabinClass, adults |-> x.adults,
     children |-> 0, infants |-> 0, sortBy |-> "", currency |-> x.currency,
     market |-> "", countryCode |-> ""] :
      o \in {"", "LHR"}, d \in {"", "JFK"}, dt \in DateChoices, x \in OptionalChoices }

NoParams ==
  [originSkyId |-> "", destinationSkyId |-> "", originEntityId |-> "",
   destinationEntityId |-> "", date |-> 0, returnDate |-> 0, cabinClass |-> "",
   adults |-> 0, children |-> 0, infants |-> 0, sortBy |-> "", currency |-> "",
   market |-> "", countryCode |-> ""]

\* What Date.now() and Math.random() may answer each time an id fallback reads them
ClockReadings  == {1, 2}
RandomReadings == {1, 2}

\* The readings of Date.now() transformItinerary may make for one raw itinerary: 0 for
\* its own id when that is missing, k for the k-th leg when that leg has no id
ClockReads(itinerary) ==
  IF itinerary.isNull THEN {}
  ELSE (IF itinerary.id = "" THEN {0} ELSE {})
       \cup (IF ~itinerary.legs.present THEN {}
             ELSE {k \in 1..Len(itinerary.legs.items) :
                     /\ ~itinerary.legs.items[k].isNull
                     /\ itinerary.legs.items[k].id = ""})

\* The reading of Math.random(): one, for the id of an itinerary without id
RandomReads(itinerary) ==
  IF ~itinerary.isNull /\ itinerary.id = "" THEN {0} ELSE {}

\* Every way the clock and the random source may answer during one transformItinerary
ItineraryNonces(itinerary) ==
  {[now |-> f, random |-> g] : f \in [ClockReads(itinerary) -> ClockReadings],
                               g \in [RandomReads(itinerary) -> RandomReadings]}

RECURSIVE NonceSeqs(_)
NonceSeqs(items) ==
  IF items = <<>> THEN {<<>>}
  ELSE {<<h>> \o t : h \in ItineraryNonces(Head(items)), t \in NonceSeqs(Tail(items))}

\* Every way they may answer during one transformFlights(data)
NoncesFor(data) == NonceSeqs(locateItineraries(data).items)

Place(id, name) ==
  [present |-> TRUE, id |-> id, name |-> name, city |-> "", country |-> ""]

Leg(id, departure, minutes, carrier) ==
  [isNull |-> FALSE, id |-> id, origin |-> Place("LHR", "Heathrow"),
   destination |-> Place("JFK", "Kennedy"), departure |-> departure,
   arrival |-> "2030-01-01T18:00", durationInMinutes |-> minutes,
   carrierName |-> carrier, carrierLogo |-> "", carrierIata |-> "",
   operatingCarrier |-> "", flightNumber |-> ""]

Price(raw) ==
  [present |-> TRUE, raw |-> JsNumber(raw), currency |-> "USD", formatted |-> ""]

NoPrice ==
  [present |-> FALSE, raw |-> JsUndefined, currency |-> "", formatted |-> ""]

Itinerary(id, legs, price) ==
  [isNull |-> FALSE, id |-> id, legs |-> legs, price |-> price, purchaseLinks |-> <<>>]

List(items) == [present |-> TRUE, items |-> items]
NoList == [present |-> FALSE, items |-> <<>>]

ItinOK     == Itinerary("it-1", List(<<Leg("leg-1", "2030-01-01T10:00", 480, "BA")>>),
                        Price(420))
ItinNoLegs == Itinerary("it-2", NoList, Price(300))
ItinNoId   == Itinerary("", List(<<Leg("", "2030-01-01T10:00", 480, "")>>), Price(250))
ItinNoDeparture ==
  Itinerary("it-4", List(<<Leg("leg-4", "", 90, "AA")>>), Price(120))

\* A response body: status is the provider's flag ("true", "false" or "" when absent),
\* hasData says data.data is an object, ctxStatus is data.data.context.status,
\* nested is data.data.itineraries, itineraries and results are the top-level lists
Payload(status, ctxStatus, nested, itineraries, results) ==
  [isNull |-> FALSE, status |-> status,
   message |-> IF status = "false" THEN "Something went wrong" ELSE "",
   searchId |-> "", hasData |-> TRUE, ctxStatus |-> ctxStatus,
   dataSearchId |-> "sid-1", nested |-> nested, itineraries |-> itineraries,
   results |-> results]

PayloadNull ==
  [isNull |-> TRUE, status |-> "", message |-> "", searchId |-> "", hasData |-> FALSE,
   ctxStatus |-> "", dataSearchId |-> "", nested |-> NoList, itineraries |-> NoList,
   results |-> NoList]

PayloadBare ==
  [isNull |-> FALSE, status |-> "true", message |-> "", searchId |-> "sid-0",
   hasData |-> FALSE, ctxStatus |-> "", dataSearchId |-> "", nested |-> NoList,
   itineraries |-> NoList, results |-> NoList]

Payloads ==
  { Payload("true", "complete", List(<<ItinOK>>), NoList, NoList),
    Payload("true", "complete", List(<<>>), NoList, NoList),
    Payload("true", "complete", List(<<ItinNoId>>), NoList, NoList),
    Payload("true", "complete", List(<<ItinNoDeparture, ItinNoLegs>>), NoList, NoList),
    Payload("true", "complete", NoList, NoList, List(<<ItinOK>>)),
    Payload("true", "incomplete", List(<<>>), NoList, NoList),
    Payload("true", "incomplete", NoList, NoList, NoList),
    Payload("true", "incomplete", List(<<ItinOK>>), NoList, NoList),
    Payload("true", "incomplete", List(<<ItinNoLegs>>), NoList, NoList),
    Payload("true", "incomplete", NoList, List(<<ItinOK>>), NoList),
    Payload("false", "", NoList, NoList, NoList),
    Payload("false", "complete", List(<<ItinOK>>), NoList, NoList),
    Payload("false", "incomplete", List(<<>>), NoList, NoList),
    PayloadBare,
    PayloadNull }

\* What the transport hands back for one request: a 2xx response with its body, or
\* an AxiosError (a non-2xx response, no response at all, a timeout, a request that
\* could not be set up)
Responded(data) ==
  [kind |-> "response", httpStatus |-> 200, data |-> data,
   err |-> [hasResponse |-> FALSE, status |-> 0, bodyMessage |-> "",
            hasRequest |-> FALSE, message |-> ""]]

Rejected(hasResponse, status, bodyMessage, hasRequest, message) ==
  [kind |-> "error", httpStatus |-> status, data |-> PayloadNull,
   err |-> [hasResponse |-> hasResponse, status |-> status,
            bodyMessage |-> bodyMessage, hasRequest |-> hasRequest,
            message |-> message]]

TransportFailures ==
  { Rejected(TRUE, 401, "", TRUE, "Request failed with status code 401"),
    Rejected(TRUE, 403, "", TRUE, "Request failed with status code 403"),
    Rejected(TRUE, 429, "Too many requests", TRUE, "Request failed with status code 429"),
    Rejected(TRUE, 500, "", TRUE, "Request failed with status code 500"),
    Rejected(TRUE, 404, "Not found", TRUE, "Request failed with status code 404"),
    Rejected(TRUE, 502, "", TRUE, "Request failed with status code 502"),
    Rejected(FALSE, 0, "", TRUE, "Network Error"),
    Rejected(FALSE, 0, "", TRUE, "timeout of 30000ms exceeded"),
    Rejected(FALSE, 0, "", FALSE, "Invalid URL") }

TransportOutcomes == {Responded(data) : data \in Payloads} \cup TransportFailures

\* Four of them, one for each way a request of searchFlights can go on: an incomplete
\* empty body (retry), a complete empty body (fallback), a body with one itinerary
\* (return), a network failure (throw)
SampleOutcomes ==
  { Responded(Payload("true", "incomplete", List(<<>>), NoList, NoList)),
    Responded(Payload("true", "complete", List(<<>>), NoList, NoList)),
    Responded(Payload("true", "complete", List(<<ItinOK>>), NoList, NoList)),
    Rejected(FALSE, 0, "", TRUE, "Network Error") }

\* The query texts handed to searchAirports
Queries == {"", "a", "lo", "lon"}

RawAirport(skyId, navSkyId, title, localizedName, subtitle) ==
  [isNull |-> FALSE, skyId |-> skyId, navSkyId |-> navSkyId, iata |-> <<>>,
   code |-> <<>>, title |-> title, localizedName |-> localizedName, name |-> <<>>,
   subtitle |-> subtitle, city |-> <<>>, cityName |-> <<>>, country |-> <<>>,
   countryName |-> <<>>, entityId |-> <<>>, navEntityId |-> <<57, 53>>]

NullAirport ==
  [isNull |-> TRUE, skyId |-> <<>>, navSkyId |-> <<>>, iata |-> <<>>, code |-> <<>>,
   title |-> <<>>, localizedName |-> <<>>, name |-> <<>>, subtitle |-> <<>>,
   city |-> <<>>, cityName |-> <<>>, country |-> <<>>, countryName |-> <<>>,
   entityId |-> <<>>, navEntityId |-> <<>>]

\* The raw records of an airport response:
\*   skyId "LHR", title ",\v Lon\u3000\n", subtitle "UK"
\*   navSkyId "JFK", localizedName "NY", subtitle "NY,\t\u00a0US\ufeff "
\*   skyId "lhr", title "Lon"
\*   skyId "LOND", title "Lon"
\*   skyId "CDG", no name, subtitle "FR"
\*   null
RawAirports ==
  { RawAirport(<<76, 72, 82>>, <<>>, <<44, 11, 32, 76, 111, 110, 12288, 10>>, <<>>,
               <<85, 75>>),
    RawAirport(<<>>, <<74, 70, 75>>, <<>>, <<78, 89>>,
               <<78, 89, 44, 9, 160, 85, 83, 65279, 32>>),
    RawAirport(<<108, 104, 114>>, <<>>, <<76, 111, 110>>, <<>>, <<>>),
    RawAirport(<<76, 79, 78, 68>>, <<>>, <<76, 111, 110>>, <<>>, <<>>),
    RawAirport(<<67, 68, 71>>, <<>>, <<>>, <<>>, <<70, 82>>),
    NullAirport }

RECURSIVE SeqsUpTo(_, _)
SeqsUpTo(S, n) ==
  IF n = 0 THEN {<<>>}
  ELSE SeqsUpTo(S, n - 1)
         \cup {Append(q, e) : q \in {r \in SeqsUpTo(S, n - 1) : Len(r) = n - 1}, e \in S}

\* The body of an airport response: response.data, whose data field should be the list
AirportBodies ==
  {[isNull |-> FALSE, list |-> List(items)] : items \in SeqsUpTo(RawAirports, MaxAirports)}
    \cup {[isNull |-> FALSE, list |-> NoList], [isNull |-> TRUE, list |-> NoList]}

AirportResponded(body) ==
  [kind |-> "response", httpStatus |-> 200, body |-> body,
   err |-> [hasResponse |-> FALSE, status |-> 0, bodyMessage |-> "",
            hasRequest |-> FALSE, message |-> ""]]

AirportRejected(failure) ==
  [kind |-> "error", httpStatus |-> failure.httpStatus,
   body |-> [isNull |-> TRUE, list |-> NoList], err |-> failure.err]

AirportOutcomes ==
  {AirportResponded(body) : body \in AirportBodies}
    \cup {AirportRejected(failure) : failure \in TransportFailures}

(***************************************************************************)
(* The decisions of searchAirports                                         *)
(***************************************************************************)
\* Mutant: only the empty query is refused
queryTooShort_empty(query) == query = ""

\* !query || query.length < 2
queryTooShort(query) == query = "" \/ Len(query) < 2

\* !response.data?.data || !Array.isArray(response.data.data)
invalidAirportBody(body) == body.isNull \/ ~body.list.present

\* A TypeError raised by the JavaScript runtime: not a FlightApiError
TypeError == [classified |-> FALSE, message |-> "TypeError", status |-> 0, code |-> ""]

\* The "Skipped airport" log reads airport.skyId of every record cleanAirport
\* refused: a null record makes it raise a TypeError
skipLogThrows(records) == \E i \in 1..Len(records) : records[i].isNull

\* Mutant: the catch block of searchAirports throws on whatever it caught
catchAirports_rethrow(error) == error

\* The catch block of searchAirports: a FlightApiError is thrown on, anything
\* else becomes SEARCH_ERROR
catchAirports(error) ==
  IF error.classified THEN error ELSE FlightApiError("Search failed", 0, "SEARCH_ERROR")

\* searchAirports of FlightService.ts from the settling of its request to its end:
\* the error it throws (through its catch block) or the airports it returns
afterAirports(out) ==
  IF out.kind = "error"
  THEN [ok |-> FALSE, error |-> catchAirports(handleError(out.err)), value |-> <<>>]
  ELSE IF invalidAirportBody(out.body)
  THEN [ok |-> FALSE,
        error |-> catchAirports(FlightApiError("Invalid response", 0, "INVALID_RESPONSE")),
        value |-> <<>>]
  ELSE IF skipLogThrows(out.body.list.items)
  THEN [ok |-> FALSE, error |-> catchAirports(TypeError), value |-> <<>>]
  ELSE [ok |-> TRUE, error |-> [classified |-> FALSE, message |-> "", status |-> 0,
                                code |-> ""],
        value |-> cleanAirports(out.body.list.items)]

\* searchAirports of unnamed/part_000: no log, a null record is filtered out
afterAirports_p0(out) ==
  IF out.kind = "error"
  THEN [ok |-> FALSE, error |-> catchAirports(handleError_p0(out.err)), value |-> <<>>]
  ELSE IF invalidAirportBody(out.body)
  THEN [ok |-> FALSE,
        error |-> catchAirports(FlightApiError("Invalid response", 0, "INVALID_RESPONSE")),
        value |-> <<>>]
  ELSE [ok |-> TRUE, error |-> [classified |-> FALSE, message |-> "", status |-> 0,
                                code |-> ""],
        value |-> cleanAirports_p0(out.body.list.items)]

(***************************************************************************)
(* The decisions of searchFlights, FlightService.ts                        *)
(***************************************************************************)
NoError == [classified |-> FALSE, message |-> "", status |-> 0, code |-> ""]
NoValue == createEmptyResponse(PayloadNull)

\* maxAttempts of performSearchWithRetry
maxAttempts == 3

\* response.data?.data?.context?.status
contextStatusOf(data) == IF ~data.isNull /\ data.hasData THEN data.ctxStatus ELSE ""

\* response.data?.data?.itineraries?.length || 0
itinerariesLengthOf(data) ==
  IF ~data.isNull /\ data.hasData /\ data.nested.present
  THEN Len(data.nested.items) ELSE 0

\* Mutant: the provider's failure flag is not looked at
failureFlag_never(data) == FALSE

\* response.data?.status === false
failureFlag(data) == ~data.isNull /\ data.status = "false"

\* The pre-validation of searchFlights: the error it throws, or NoError
validate(params, nowHour, offset) ==
  IF missingParams(params)
  THEN FlightApiError("Missing required search parameters. Please make sure you've selected both airports and a departure date.",
                      400, "INVALID_PARAMS")
  ELSE IF dateInPast(params, nowHour, offset)
  THEN FlightApiError("Please select a departure date that's today or in the future.",
                      400, "INVALID_DATE")
  ELSE NoError

\* Mutant: the last attempt is retried too (<= for <)
shouldRetry_inclusive(data, n) ==
  /\ contextStatusOf(data) = "incomplete"
  /\ itinerariesLengthOf(data) = 0
  /\ n <= maxAttempts

\* The condition of the retry branch of performSearchWithRetry
shouldRetry(data, n) ==
  /\ contextStatusOf(data) = "incomplete"
  /\ itinerariesLengthOf(data) = 0
  /\ n < maxAttempts

\* Mutant: the same delay before every retry
backoffDelay_flat(n) == 2000

\* The delay handed to setTimeout, in milliseconds
backoffDelay(n) == n * 2000

Decision(next, error, value, delay) ==
  [next |-> next, error |-> error, value |-> value, delay |-> delay]

\* Mutant: the catch block starts the alternatives for every error
catchPrimary_alwaysFallback(error) == Decision("fallback", NoError, NoValue, 0)

\* The catch block of performSearchWithRetry: a FlightApiError is thrown on, anything
\* else starts the alternatives
catchPrimary(error) ==
  IF error.classified THEN Decision("throw", error, NoValue, 0)
  ELSE Decision("fallback", NoError, NoValue, 0)

\* performSearchWithRetry from the settling of its request to its next await or its end
afterPrimary(out, n, nonce) ==
  IF out.kind = "error" THEN catchPrimary(handleError(out.err))
  ELSE IF failureFlag(out.data)
  THEN catchPrimary(FlightApiError("No flights available for this route",
                                   404, "NO_FLIGHTS_FOUND"))
  ELSE IF shouldRetry(out.data, n)
  THEN Decision("backoff", NoError, NoValue, backoffDelay(n))
  ELSE
    LET transformed == transformFlights(out.data, nonce)
    IN IF Len(transformed.itineraries) = 0
       THEN IF contextStatusOf(out.data) = "incomplete"
            THEN catchPrimary(FlightApiError("The flight search is taking longer than expected. This usually happens when there are limited flight options for your route. Try searching for nearby dates or different airports.",
                                             202, "SEARCH_INCOMPLETE"))
            ELSE Decision("fallback", NoError, NoValue, 0)
       ELSE Decision("return", NoError, transformed, 0)

\* Mutant: a failed alternative request ends the loop with an empty result
afterAlternative_stopOnError(out, nonce) ==
  IF out.kind = "error" THEN Decision("return", NoError, NoValue, 0)
  ELSE
    LET transformed == transformFlights(out.data, nonce)
    IN IF Len(transformed.itineraries) > 0
       THEN Decision("return", NoError, transformed, 0)
       ELSE Decision("continue", NoError, NoValue, 0)

\* One round of the loop of retrySearchWithAlternatives, from the settling of the
\* request: the variant's result is returned, or the loop goes on
afterAlternative(out, nonce) ==
  IF out.kind = "error" THEN Decision("continue", NoError, NoValue, 0)
  ELSE
    LET transformed == transformFlights(out.data, nonce)
    IN IF Len(transformed.itineraries) > 0
       THEN Decision("return", NoError, transformed, 0)
       ELSE Decision("continue", NoError, NoValue, 0)

\* The error at the end of retrySearchWithAlternatives
noFlightsFound ==
  FlightApiError("We couldn't find any flights for your search. This might be because flights aren't available for your selected route or dates. Try searching for a different date or nearby airports.",
                 404, "NO_FLIGHTS_FOUND")

(***************************************************************************)
(* The decisions of searchFlights, unnamed/part_000                        *)
(***************************************************************************)
validateSearchParams_p0(params) ==
  IF missingParams(params)
  THEN FlightApiError("Missing required search parameters.", 400, "INVALID_PARAMS")
  ELSE NoError

\* The catch block of searchFlights
catchSearch_p0(error) ==
  IF error.classified THEN Decision("throw", error, NoValue, 0)
  ELSE Decision("throw",
                FlightApiError("Flight search failed. Please try again.", 0, "SEARCH_ERROR"),
                NoValue, 0)

\* searchFlights from the settling of its request to its end; reading status of a
\* null body raises a TypeError, which is no FlightApiError
afterSearch_p0(out) ==
  IF out.kind = "error" THEN catchSearch_p0(handleError_p0(out.err))
  ELSE IF out.data.isNull THEN catchSearch_p0(NoError)
  ELSE IF out.data.status = "false"
  THEN catchSearch_p0(FlightApiError(IF out.data.message # "" THEN out.data.message
                                     ELSE "API returned an error",
                                     out.httpStatus, "API_ERROR"))
  ELSE
    LET transformed == transformFlights_p0(out.data)
    IN IF Len(transformed.itineraries) = 0 /\ contextStatusOf(out.data) = "incomplete"
       THEN catchSearch_p0(FlightApiError("Search timed out. Try different dates or nearby airports.",
                                          202, "SEARCH_INCOMPLETE"))
       ELSE Decision("return", NoError, transformed, 0)

(***************************************************************************)
(* State                                                                   *)
(***************************************************************************)
VARIABLES
  rev,           \* the revision of FlightApiService in use: "service" or "unnamed"
  now,           \* the instant of the search, hours since the epoch, UTC
  tz,            \* the local offset from UTC, hours
  pc,            \* where the searchFlights call stands: "idle", "primary" (a primary
                 \* request is in flight), "backoff" (the setTimeout promise is
                 \* pending), "fallback" (an alternative request is in flight), "done"
  params,        \* the parameters of the call
  attempt,       \* the attempt argument of the running performSearchWithRetry
  altIndex,      \* the position of the loop of retrySearchWithAlternatives, 1..3
  timer,         \* the pending setTimeout: delay asked for and time elapsed, ms
  calls,         \* the requests handed to api.get, in order
  sleeps,        \* the setTimeout delays that have elapsed, in order
  lastResponse,  \* the last settled request: its phase, its number and its outcome
  outcome,       \* how the call ended: "none", "returned" (value) or "failed" (error)
  second,        \* a second searchFlights call on the same service object, running
                 \* beside the first: the record of its pc, params, ..., outcome
  apc,           \* where the searchAirports call stands: "idle", "pending", "done"
  query,         \* the query of the searchAirports call
  airportCalls,  \* the airport requests handed to api.get, in order
  airportResponse, \* the outcome of the settled airport request
  airports,      \* how searchAirports ended: "none", "returned" or "failed"
  keyCheck,      \* where the validateApiKey call stands ("none", "awaiting" its
                 \* searchAirports call, "returned") and the boolean it returned
  arg,           \* the function applied on its own and its argument, [fn |-> "none"]
                 \* when the service is driven through its public operations
  ret,           \* what that function returned: [done |-> FALSE] until it has run
  hook,          \* one use of useAirportSearch: its three state cells and the lookups
                 \* started through it, in order
  store          \* the state of the flightReducer together with where the form's
                 \* handleSubmit stands

firstVars == <<pc, params, attempt, altIndex, timer, calls, sleeps, lastResponse,
               outcome>>
flightVars == <<firstVars, second>>
airportVars == <<apc, query, airportCalls, airportResponse, airports, keyCheck>>
pureVars == <<arg, ret>>
uiVars == <<hook, store>>
vars == <<rev, now, tz, flightVars, airportVars, pureVars, uiVars>>

Request(phase, n, req) == [phase |-> phase, n |-> n, params |-> req]

NoResponse == [phase |-> "none", n |-> 0, out |-> Responded(PayloadNull)]

(***************************************************************************)
(* The React state: useAirportSearch, FlightContext, SearchForm            *)
(***************************************************************************)
\* What a lookup has not yet yielded
NoLookupResult == [ok |-> FALSE, error |-> NoError, value |-> <<>>]

\* One call of the hook's searchAirports: its query, whether it went on to await the
\* service, whether it has run to its end, and what the service gave it
Lookup(q, awaited, settled, result) ==
  [query |-> q, awaited |-> awaited, settled |-> settled, result |-> result]

\* useState([]), useState(false), useState(null), and no lookup started
useAirportSearchInit ==
  [airports |-> <<>>, isLoading |-> FALSE, error |-> "null", lookups |-> <<>>]

\* searchResults: null
NoResults == [isNull |-> TRUE]

\* initialState of the flight context; from and to hold the airport's iata, "" for null
initialState(nowHour) ==
  [searchFormData |-> [tripType |-> "round-trip", from |-> "", to |-> "",
                       departDate |-> IsoDay(nowHour),
                       returnDate |-> IsoDay(nowHour + 7 * 24),
                       passengers |-> [adults |-> 1, children |-> 0, infants |-> 0],
                       cabinClass |-> "economy"],
   searchResults |-> NoResults,
   isLoading |-> FALSE,
   error |-> "null",
   filters |-> [priceRange |-> <<0, 10000>>, airlines |-> <<>>, stops |-> <<>>,
                departureTime |-> <<>>, duration |-> <<0, 1440>>],
   sortBy |-> "price_low"]

\* The flight context and the local state of SearchForm on mount: isSearching,
\* searchStatus, searchAttempts, the 8-second status timer, and where handleSubmit
\* stands ("idle", "searching" across its await, "settled")
\* closure holds the searchAttempts and the searchFormData of the render whose
\* handleSubmit is running: what its getSuggestions reads after the await
SearchFormInit(nowHour) ==
  [state |-> initialState(nowHour), isSearching |-> FALSE, searchStatus |-> "",
   searchAttempts |-> 0, statusTimeout |-> "none", submit |-> "idle",
   closure |-> [searchAttempts |-> 0,
                searchFormData |-> initialState(nowHour).searchFormData]]

\* The state of a searchFlights call that has not been made
NewCall ==
  [pc |-> "idle", params |-> NoParams, attempt |-> 0, altIndex |-> 0,
   timer |-> [delay |-> 0, elapsed |-> 0], calls |-> <<>>, sleeps |-> <<>>,
   lastResponse |-> NoResponse,
   outcome |-> [kind |-> "none", error |-> NoError, value |-> NoValue]]

\* No call is running on the service object, and the components have just mounted
Idle ==
  /\ hook = useAirportSearchInit
  /\ store = SearchFormInit(now)
  /\ pc = "idle"
  /\ params = NoParams
  /\ attempt = 0
  /\ altIndex = 0
  /\ timer = [delay |-> 0, elapsed |-> 0]
  /\ calls = <<>>
  /\ sleeps = <<>>
  /\ lastResponse = NoResponse
  /\ outcome = [kind |-> "none", error |-> NoError, value |-> NoValue]
  /\ second = NewCall
  /\ apc = "idle"
  /\ query = ""
  /\ airportCalls = <<>>
  /\ airportResponse = AirportResponded([isNull |-> TRUE, list |-> NoList])
  /\ airports = [kind |-> "none", error |-> NoError, value |-> <<>>]
  /\ keyCheck = [at |-> "none", value |-> FALSE]

NoArg == [fn |-> "none"]
NoRet == [done |-> FALSE]

Init ==
  /\ rev \in {"service", "unnamed"}
  /\ now \in {EpochDay * 24 + h : h \in NowHours}
  /\ tz \in TzOffsets
  /\ Idle
  /\ arg = NoArg
  /\ ret = NoRet

Returned(value) == [kind |-> "returned", error |-> NoError, value |-> value]
Failed(error)   == [kind |-> "failed", error |-> error, value |-> NoValue]

(***************************************************************************)
(* Operations, FlightService.ts                                            *)
(* Each action is one task of the event loop: a call runs from the event   *)
(* that starts or resumes it (the caller, a settled request, a timer that  *)
(* fires) to its next await or to its end, and no other task runs          *)
(* meanwhile.  A searchFlights call keeps its state in its own frames      *)
(* (the service object holds the axios instance only), so each step is     *)
(* written on the record of one call and used for the first call, held in  *)
(* the variables pc ... outcome, and for the second.                       *)
(***************************************************************************)
\* The state of the first call as a record
TheCall ==
  [pc |-> pc, params |-> params, attempt |-> attempt, altIndex |-> altIndex,
   timer |-> timer, calls |-> calls, sleeps |-> sleeps, lastResponse |-> lastResponse,
   outcome |-> outcome]

\* The first call takes the state call
Becomes(call) ==
  /\ pc' = call.pc
  /\ params' = call.params
  /\ attempt' = call.attempt
  /\ altIndex' = call.altIndex
  /\ timer' = call.timer
  /\ calls' = call.calls
  /\ sleeps' = call.sleeps
  /\ lastResponse' = call.lastResponse
  /\ outcome' = call.outcome

\* searchFlights(p) up to the first await of performSearchWithRetry
startSearch(call, p, clock, zone) ==
  IF validate(p, clock, zone) # NoError
  THEN [call EXCEPT !.params = p, !.pc = "done",
                    !.outcome = Failed(validate(p, clock, zone))]
  ELSE [call EXCEPT !.params = p, !.pc = "primary", !.attempt = 1,
                    !.calls = Append(@, Request("primary", 1, requestParams(p)))]

\* The setTimeout callback of the backoff resolves the awaited promise:
\* performSearchWithRetry(params, attempt + 1, maxAttempts) up to its await
resumeBackoff(call) ==
  [call EXCEPT
     !.sleeps = Append(@, [ms |-> call.timer.delay, waited |-> call.timer.elapsed]),
     !.attempt = @ + 1,
     !.calls = Append(@, Request("primary", call.attempt + 1,
                                 requestParams(call.params))),
     !.pc = "primary",
     !.timer = [delay |-> 0, elapsed |-> 0]]

\* Mutant: the delay is spun away inside the handler (a loop on Date.now()), which
\* goes straight on to the next attempt without giving the thread back
sleep_busyWait(call, delay) ==
  resumeBackoff([call EXCEPT !.pc = "backoff",
                             !.timer = [delay |-> delay, elapsed |-> delay]])

\* await new Promise((resolve) => setTimeout(resolve, delay)): setTimeout arms the
\* timer and returns, and the await ends the task; the call rests in "backoff" until
\* the timer's callback resumes it
sleep(call, delay) ==
  [call EXCEPT !.pc = "backoff", !.timer = [delay |-> delay, elapsed |-> 0]]

\* The primary request of the call settles and performSearchWithRetry runs on to its
\* next await or its end
resumePrimary(call, out, nonce, clock) ==
  LET d == afterPrimary(out, call.attempt, nonce)
      settled == [call EXCEPT
                    !.lastResponse = [phase |-> "primary", n |-> call.attempt,
                                      out |-> out]]
  IN CASE d.next = "throw" ->
            [settled EXCEPT !.pc = "done", !.outcome = Failed(d.error)]
       [] d.next = "return" ->
            [settled EXCEPT !.pc = "done", !.outcome = Returned(d.value)]
       [] d.next = "backoff" ->
            sleep(settled, d.delay)
       [] d.next = "fallback" ->
            [settled EXCEPT
               !.pc = "fallback",
               !.altIndex = 1,
               !.calls = Append(@, Request("fallback", 1,
                                  requestParams(alternatives(call.params, clock)[1])))]

\* An alternative request of the call settles and the loop of
\* retrySearchWithAlternatives runs on to its next await or its end
resumeAlternative(call, out, nonce, clock) ==
  LET d == afterAlternative(out, nonce)
      settled == [call EXCEPT
                    !.lastResponse = [phase |-> "fallback", n |-> call.altIndex,
                                      out |-> out]]
  IN IF d.next = "return"
     THEN [settled EXCEPT !.pc = "done", !.outcome = Returned(d.value)]
     ELSE IF call.altIndex < Len(alternatives(call.params, clock))
     THEN [settled EXCEPT
             !.altIndex = @ + 1,
             !.calls = Append(@, Request("fallback", call.altIndex + 1,
                                requestParams(alternatives(call.params, clock)
                                                [call.altIndex + 1])))]
     ELSE [settled EXCEPT !.pc = "done",
                          !.outcome = Failed(catchPrimary(noFlightsFound).error)]

\* A second of time passes for the call: its timer, when armed, runs on
passTime(call) ==
  IF call.pc = "backoff" THEN [call EXCEPT !.timer.elapsed = @ + 1000] ELSE call

\* The call's timer is armed and may still run on; it fires MaxOverrun seconds late
\* at most
timerRuns(call) ==
  call.pc = "backoff" /\ call.timer.elapsed < call.timer.delay + MaxOverrun * 1000

timerOverdue(call) ==
  call.pc = "backoff" /\ ~timerRuns(call)

\* searchFlights(p) on the first call
callSearchFlights(p) ==
  /\ pc = "idle"
  /\ rev = "service"
  /\ Becomes(startSearch(TheCall, p, now, tz))
  /\ UNCHANGED <<rev, now, tz, second, airportVars, pureVars>>

\* searchFlights(params) called on the service object directly
searchFlights ==
  /\ \E p \in ParamChoices : callSearchFlights(p)
  /\ UNCHANGED uiVars

\* The primary request settles with one of Outcomes
primarySettlesWith(Outcomes) ==
  /\ pc = "primary"
  /\ rev = "service"
  /\ \E out \in Outcomes : \E nonce \in NoncesFor(out.data) :
       Becomes(resumePrimary(TheCall, out, nonce, now))
  /\ UNCHANGED <<rev, now, tz, second, airportVars, pureVars, uiVars>>

primarySettles == primarySettlesWith(TransportOutcomes)

\* Time passes while a backoff timer is pending: every armed timer runs on
tick ==
  /\ timerRuns(TheCall) \/ timerRuns(second)
  /\ ~timerOverdue(TheCall) /\ ~timerOverdue(second)
  /\ Becomes(passTime(TheCall))
  /\ second' = passTime(second)
  /\ UNCHANGED <<rev, now, tz, airportVars, pureVars, uiVars>>

\* The timer fires: performSearchWithRetry(params, attempt + 1, maxAttempts)
backoffElapsed ==
  /\ pc = "backoff"
  /\ timer.elapsed >= timer.delay
  /\ Becomes(resumeBackoff(TheCall))
  /\ UNCHANGED <<rev, now, tz, second, airportVars, pureVars, uiVars>>

\* An alternative request settles with one of Outcomes
alternativeSettlesWith(Outcomes) ==
  /\ pc = "fallback"
  /\ \E out \in Outcomes : \E nonce \in NoncesFor(out.data) :
       Becomes(resumeAlternative(TheCall, out, nonce, now))
  /\ UNCHANGED <<rev, now, tz, second, airportVars, pureVars, uiVars>>

alternativeSettles == alternativeSettlesWith(TransportOutcomes)

(***************************************************************************)
(* Operations, unnamed/part_000                                            *)
(***************************************************************************)
\* searchFlights(params) up to its await, params being one of Params
searchFlightsOf_p0(Params) ==
  /\ pc = "idle"
  /\ rev = "unnamed"
  /\ \E p \in Params :
       /\ params' = p
       /\ IF validateSearchParams_p0(p) # NoError
          THEN /\ pc' = "done"
               /\ outcome' = Failed(validateSearchParams_p0(p))
               /\ UNCHANGED <<attempt, calls>>
          ELSE /\ pc' = "primary"
               /\ attempt' = 1
               /\ calls' = Append(calls, Request("primary", 1, buildRequestParams_p0(p)))
               /\ UNCHANGED outcome
  /\ UNCHANGED <<rev, now, tz, altIndex, timer, sleeps, lastResponse, second, airportVars,
                 pureVars, uiVars>>

\* searchFlights(params) called with any of the parameter choices
searchFlights_p0 == searchFlightsOf_p0(ParamChoices)

\* The request settles and searchFlights runs to its end
searchSettles_p0 ==
  /\ pc = "primary"
  /\ rev = "unnamed"
  /\ \E out \in TransportOutcomes :
       LET d == afterSearch_p0(out)
       IN /\ lastResponse' = [phase |-> "primary", n |-> attempt, out |-> out]
          /\ pc' = "done"
          /\ outcome' = IF d.next = "return" THEN Returned(d.value) ELSE Failed(d.error)
  /\ UNCHANGED <<rev, now, tz, params, attempt, altIndex, timer, calls, sleeps, second,
                 airportVars, pureVars, uiVars>>

(***************************************************************************)
(* Operations: searchAirports                                              *)
(***************************************************************************)
\* How a searchAirports call ended
AirportsEnded(result) ==
  IF result.ok THEN [kind |-> "returned", error |-> NoError, value |-> result.value]
  ELSE [kind |-> "failed", error |-> result.error, value |-> <<>>]

\* validateApiKey after its await: true when searchAirports returned (try), and
\* when it threw, whether the error is anything but a FlightApiError with code
\* UNAUTHORIZED (catch)
validateApiKeyReturns(ended) ==
  IF ended.kind = "returned" THEN TRUE
  ELSE ~(ended.error.classified /\ ended.error.code = "UNAUTHORIZED")

\* The caller of the searchAirports call that has just ended resumes: a waiting
\* validateApiKey returns its boolean
callerResumes(ended) ==
  keyCheck' = IF keyCheck.at = "awaiting"
              THEN [at |-> "returned", value |-> validateApiKeyReturns(ended)]
              ELSE keyCheck

\* The body of searchAirports(q) up to its await, the same in both revisions
callSearchAirports(q) ==
  /\ query' = q
  /\ IF queryTooShort(q)
     THEN /\ apc' = "done"
          /\ airports' = [kind |-> "failed",
                          error |-> FlightApiError("Query too short", 400, "INVALID_QUERY"),
                          value |-> <<>>]
          /\ UNCHANGED airportCalls
     ELSE /\ apc' = "pending"
          /\ airportCalls' = Append(airportCalls, [query |-> q])
          /\ UNCHANGED airports
  /\ UNCHANGED <<rev, now, tz, pureVars, uiVars, flightVars, airportResponse>>

\* searchAirports(query) up to its await, FlightService.ts
searchAirports ==
  /\ apc = "idle"
  /\ rev = "service"
  /\ \E q \in Queries : callSearchAirports(q)
  /\ UNCHANGED keyCheck

\* validateApiKey() up to its await, FlightService.ts: it calls searchAirports("test")
validateApiKey ==
  /\ apc = "idle"
  /\ rev = "service"
  /\ callSearchAirports("test")
  /\ keyCheck' = IF apc' = "done"
                 THEN [at |-> "returned", value |-> validateApiKeyReturns(airports')]
                 ELSE [at |-> "awaiting", value |-> FALSE]

\* The airport request settles with one of Outcomes, searchAirports runs to its end
\* and its caller resumes
airportsSettleWith(Outcomes) ==
  /\ apc = "pending"
  /\ rev = "service"
  /\ \E out \in Outcomes :
       /\ airportResponse' = out
       /\ airports' = AirportsEnded(afterAirports(out))
       /\ callerResumes(AirportsEnded(afterAirports(out)))
  /\ apc' = "done"
  /\ UNCHANGED <<rev, now, tz, pureVars, uiVars, flightVars, query, airportCalls>>

airportsSettle == airportsSettleWith(AirportOutcomes)

\* searchAirports(query) up to its await, unnamed/part_000
searchAirports_p0 ==
  /\ apc = "idle"
  /\ rev = "unnamed"
  /\ \E q \in Queries : callSearchAirports(q)
  /\ UNCHANGED keyCheck

\* validateApiKey() up to its await, unnamed/part_000
validateApiKey_p0 ==
  /\ apc = "idle"
  /\ rev = "unnamed"
  /\ callSearchAirports("test")
  /\ keyCheck' = IF apc' = "done"
                 THEN [at |-> "returned", value |-> validateApiKeyReturns(airports')]
                 ELSE [at |-> "awaiting", value |-> FALSE]

airportsSettle_p0 ==
  /\ apc = "pending"
  /\ rev = "unnamed"
  /\ \E out \in AirportOutcomes :
       /\ airportResponse' = out
       /\ airports' = AirportsEnded(afterAirports_p0(out))
       /\ callerResumes(AirportsEnded(afterAirports_p0(out)))
  /\ apc' = "done"
  /\ UNCHANGED <<rev, now, tz, pureVars, uiVars, flightVars, query, airportCalls>>

NextAirports ==
  \/ searchAirports
  \/ validateApiKey
  \/ airportsSettle
  \/ searchAirports_p0
  \/ validateApiKey_p0
  \/ airportsSettle_p0

\* The airport lookup on its own
SpecAirports == Init /\ [][NextAirports]_vars

Next ==
  \/ searchFlights
  \/ primarySettles
  \/ tick
  \/ backoffElapsed
  \/ alternativeSettles
  \/ searchFlights_p0
  \/ searchSettles_p0

\* The flight search on its own
Spec == Init /\ [][Next]_vars

\* A search made at 02:00 UTC by a caller whose local time is UTC
InitLive ==
  /\ Init
  /\ now = EpochDay * 24 + 2
  /\ tz = 0

\* The callers of the terminating search: optional parameters all left out or all
\* given, and every choice of places and date
LiveParams == {p \in ParamChoices : p.originEntityId \in {"", "95565050"}}

liveSearchFlights ==
  /\ \E p \in LiveParams : callSearchFlights(p)
  /\ UNCHANGED uiVars

liveSearchFlights_p0 == searchFlightsOf_p0(LiveParams)

NextLive ==
  \/ liveSearchFlights
  \/ primarySettles
  \/ tick
  \/ backoffElapsed
  \/ alternativeSettles
  \/ liveSearchFlights_p0
  \/ searchSettles_p0

\* The flight search with every request settling in the end and the clock running:
\* a pending request settles, time passes while a timer is armed, a timer whose
\* delay has elapsed fires
SpecLive ==
  /\ InitLive
  /\ [][NextLive]_vars
  /\ WF_vars(primarySettles)
  /\ WF_vars(alternativeSettles)
  /\ WF_vars(searchSettles_p0)
  /\ WF_vars(tick)
  /\ WF_vars(backoffElapsed)

(***************************************************************************)
(* Operations beside a waiting search: a second searchFlights call and an  *)
(* airport lookup, made on the same service object while the first search  *)
(* waits in a backoff delay                                                *)
(***************************************************************************)
\* The search both calls make
ParallelParams ==
  {p \in ParamChoices : /\ p.originSkyId = "LHR" /\ p.destinationSkyId = "JFK"
                        /\ p.date = EpochDay + 1 /\ p.originEntityId = ""}

\* What the transport answers the airport lookup: one record, or a network failure
ParallelAirportOutcomes ==
  { AirportResponded([isNull |-> FALSE,
                      list |-> List(<<RawAirport(<<76, 72, 82>>, <<>>, <<76, 111, 110>>,
                                                 <<>>, <<85, 75>>)>>)]),
    AirportRejected(Rejected(FALSE, 0, "", TRUE, "Network Error")) }

\* The first search
parallelSearchFlights ==
  /\ \E p \in ParallelParams : callSearchFlights(p)
  /\ UNCHANGED uiVars

parallelPrimarySettles == primarySettlesWith(SampleOutcomes)

parallelAlternativeSettles == alternativeSettlesWith(SampleOutcomes)

\* searchFlights(p) called a second time, while the first call waits in its delay
secondSearchFlights ==
  /\ rev = "service"
  /\ pc = "backoff"
  /\ second.pc = "idle"
  /\ \E p \in ParallelParams : second' = startSearch(second, p, now, tz)
  /\ UNCHANGED <<rev, now, tz, firstVars, airportVars, pureVars, uiVars>>

\* The primary request of the second call settles
secondPrimarySettles ==
  /\ rev = "service"
  /\ second.pc = "primary"
  /\ \E out \in SampleOutcomes : \E nonce \in NoncesFor(out.data) :
       second' = resumePrimary(second, out, nonce, now)
  /\ UNCHANGED <<rev, now, tz, firstVars, airportVars, pureVars, uiVars>>

\* The backoff timer of the second call fires
secondBackoffElapsed ==
  /\ second.pc = "backoff"
  /\ second.timer.elapsed >= second.timer.delay
  /\ second' = resumeBackoff(second)
  /\ UNCHANGED <<rev, now, tz, firstVars, airportVars, pureVars, uiVars>>

\* An alternative request of the second call settles
secondAlternativeSettles ==
  /\ second.pc = "fallback"
  /\ \E out \in SampleOutcomes : \E nonce \in NoncesFor(out.data) :
       second' = resumeAlternative(second, out, nonce, now)
  /\ UNCHANGED <<rev, now, tz, firstVars, airportVars, pureVars, uiVars>>

\* searchAirports(query) called while the first search waits in its delay, with a
\* query that is refused and one that is sent
ParallelQueries == {"a", "lon"}

parallelSearchAirports ==
  /\ pc = "backoff"
  /\ apc = "idle"
  /\ rev = "service"
  /\ \E q \in ParallelQueries : callSearchAirports(q)
  /\ UNCHANGED keyCheck

parallelAirportsSettle == airportsSettleWith(ParallelAirportOutcomes)

InitParallel ==
  /\ Init
  /\ rev = "service"
  /\ now = EpochDay * 24 + 2
  /\ tz = 0

\* Two searches and a lookup on one service object, their tasks interleaved by the
\* event loop
NextParallel ==
  \/ parallelSearchFlights
  \/ parallelPrimarySettles
  \/ tick
  \/ backoffElapsed
  \/ parallelAlternativeSettles
  \/ secondSearchFlights
  \/ secondPrimarySettles
  \/ secondBackoffElapsed
  \/ secondAlternativeSettles
  \/ parallelSearchAirports
  \/ parallelAirportsSettle

SpecParallel == InitParallel /\ [][NextParallel]_vars

(***************************************************************************)
(* Operations: the searchAirports callback of useAirportSearch             *)
(***************************************************************************)
\* searchAirports(query) of the hook up to its await: a query under two characters
\* empties the list and returns; otherwise the loading flag is raised, the error is
\* cleared and flightApi.searchAirports issues its request
hookSearchAirports ==
  /\ rev = "service"
  /\ Len(hook.lookups) < MaxLookups
  /\ \E q \in Queries :
       IF Len(q) < 2
       THEN /\ hook' = [hook EXCEPT
                          !.airports = <<>>,
                          !.lookups = Append(@, Lookup(q, FALSE, TRUE, NoLookupResult))]
            /\ UNCHANGED airportCalls
       ELSE /\ hook' = [hook EXCEPT
                          !.isLoading = TRUE,
                          !.error = "null",
                          !.lookups = Append(@, Lookup(q, TRUE, FALSE, NoLookupResult))]
            /\ airportCalls' = Append(airportCalls, [query |-> q])
  /\ UNCHANGED <<rev, now, tz, pureVars, flightVars, store, apc, query, airportResponse,
                 airports, keyCheck>>

\* The request of one of the lookups in flight settles: the hook stores the airports
\* (try) or the message and an empty list (catch), and lowers the flag (finally)
hookLookupSettles ==
  /\ rev = "service"
  /\ \E i \in 1..Len(hook.lookups) : \E out \in AirportOutcomes :
       LET result == afterAirports(out)
       IN /\ ~hook.lookups[i].settled
          /\ hook' = [hook EXCEPT
                        !.airports = IF result.ok THEN result.value ELSE <<>>,
                        !.error = IF result.ok THEN @ ELSE result.error.message,
                        !.isLoading = FALSE,
                        !.lookups[i] = Lookup(@.query, TRUE, TRUE, result)]
  /\ UNCHANGED <<rev, now, tz, pureVars, flightVars, airportVars, store>>

\* clearAirports() of the hook: setAirports([]) and setError(null); the loading flag
\* and the lookups under way are left as they are
clearAirports ==
  /\ rev = "service"
  /\ hook' = [hook EXCEPT !.airports = <<>>, !.error = "null"]
  /\ UNCHANGED <<rev, now, tz, pureVars, flightVars, airportVars, store>>

InitHook ==
  /\ Init
  /\ rev = "service"
  /\ now = EpochDay * 24 + 2
  /\ tz = 0

NextHook ==
  \/ hookSearchAirports
  \/ hookLookupSettles
  \/ clearAirports

\* The callers of one useAirportSearch hook: queries typed into it, its requests
\* settling, its list cleared
SpecHook == InitHook /\ [][NextHook]_vars

(***************************************************************************)
(* The flight context: flightReducer                                       *)
(***************************************************************************)
\* { ...a, ...b }
Merge(a, b) ==
  [k \in DOMAIN a \cup DOMAIN b |-> IF k \in DOMAIN b THEN b[k] ELSE a[k]]

Action(type, payload) == [type |-> type, payload |-> payload]

flightReducer(state, action) ==
  CASE action.type = "SET_SEARCH_FORM_DATA" ->
         [state EXCEPT !.searchFormData = Merge(@, action.payload)]
    [] action.type = "SET_SEARCH_RESULTS" ->
         [state EXCEPT !.searchResults = action.payload, !.isLoading = FALSE,
                       !.error = "null"]
    [] action.type = "SET_LOADING" ->
         [state EXCEPT !.isLoading = action.payload]
    [] action.type = "SET_ERROR" ->
         [state EXCEPT !.error = action.payload, !.isLoading = FALSE]
    [] action.type = "SET_FILTERS" ->
         [state EXCEPT !.filters = Merge(@, action.payload)]
    [] action.type = "SET_SORT_BY" ->
         [state EXCEPT !.sortBy = action.payload]
    [] action.type = "CLEAR_RESULTS" ->
         [state EXCEPT !.searchResults = NoResults, !.error = "null"]
    [] OTHER -> state

(***************************************************************************)
(* SearchForm: validateForm, getSuggestions, getErrorMessage, handleSubmit *)
(***************************************************************************)
\* The bullet U+2022 of the messages, written in ASCII
Bullet == "*"

\* The message validateForm returns, "null" when the form is valid
validateForm(form, nowHour, offset) ==
  IF form.from = "" THEN "Please select departure airport."
  ELSE IF form.to = "" THEN "Please select destination airport."
  ELSE IF form.from = form.to THEN "Departure and destination must be different."
  ELSE IF form.departDate = 0 THEN "Please select departure date."
  ELSE IF form.tripType = "round-trip" /\ form.returnDate = 0
  THEN "Please select return date."
  ELSE IF /\ form.tripType = "round-trip"
          /\ ~DateParse(form.departDate).nan
          /\ DateBefore(DateParse(form.returnDate), DateParse(form.departDate).t)
  THEN "Return date must be after departure date."
  ELSE IF DateBefore(DateParse(form.departDate), LocalMidnight(nowHour, offset))
  THEN "Departure date cannot be in the past."
  ELSE "null"

\* The plus-minus sign of the first suggestion is written in ASCII
getSuggestions(searchAttempts, form) ==
  (IF searchAttempts > 0
   THEN <<"Try different dates (+-3 days)", "Check nearby airports",
          "This route might need connecting flights">>
   ELSE <<>>)
  \o (IF form.cabinClass # "economy" THEN <<"Try Economy class for more options">>
      ELSE <<>>)

\* suggestions.join("\n* ")
RECURSIVE JoinBullets(_)
JoinBullets(items) ==
  IF Len(items) = 0 THEN ""
  ELSE IF Len(items) = 1 THEN items[1]
  ELSE items[1] \o "\n" \o Bullet \o " " \o JoinBullets(Tail(items))

getErrorMessage(error) ==
  CASE error.code = "NO_FLIGHTS_FOUND" ->
         "No flights found. Try different dates or nearby airports."
    [] error.code = "SEARCH_INCOMPLETE" ->
         "Search timed out. The route might have limited options - try different dates."
    [] error.code = "INVALID_DATE" -> "Please select a valid departure date."
    [] error.code = "INVALID_PARAMS" -> "Please fill in all required fields."
    [] error.code = "UNAUTHORIZED" -> "Service temporarily unavailable. Please try again."
    [] error.code = "RATE_LIMIT" -> "Too many searches. Please wait a moment."
    [] error.code = "NETWORK_ERROR" -> "Connection problem. Check your internet and retry."
    [] OTHER -> "Search failed: " \o error.message

\* The params object handleSubmit builds from the form
submitParams(form) ==
  [originSkyId |-> form.from, destinationSkyId |-> form.to,
   originEntityId |-> form.from, destinationEntityId |-> form.to,
   date |-> form.departDate,
   returnDate |-> IF form.tripType = "round-trip" THEN form.returnDate ELSE 0,
   cabinClass |-> form.cabinClass, adults |-> form.passengers.adults,
   children |-> form.passengers.children, infants |-> form.passengers.infants,
   sortBy |-> "price_low", currency |-> "USD", market |-> "US", countryCode |-> "US"]

\* The message of the branch for a result without itineraries
emptyResultMessage(suggestions) ==
  "No flights found for your search."
  \o (IF Len(suggestions) > 0
      THEN "\n\nTry:\n" \o Bullet \o " " \o JoinBullets(suggestions)
      ELSE "")

\* The message the catch block of handleSubmit composes
caughtMessage(error, suggestions) ==
  LET base == IF error.classified
              THEN getErrorMessage(error)
                   \o (IF error.code = "SEARCH_INCOMPLETE"
                       THEN "\n\nThis route may have limited availability. Consider:\n"
                            \o Bullet \o " Flying on weekdays\n"
                            \o Bullet \o " Checking nearby airports\n"
                            \o Bullet \o " Booking further in advance"
                       ELSE "")
              ELSE error.message
  IN base \o (IF Len(suggestions) > 0 /\ error.classified
                 /\ error.code # "SEARCH_INCOMPLETE"
              THEN "\n\nSuggestions:\n" \o Bullet \o " " \o JoinBullets(suggestions)
              ELSE "")

\* The edits a user makes to the form
FormEdits ==
  { [from |-> "LHR"], [to |-> "JFK"], [to |-> "LHR"], [tripType |-> "one-way"],
    [cabinClass |-> "business"], [returnDate |-> 0], [departDate |-> EpochDay - 1] }

\* updateSearchForm(data): the inputs stay enabled during a search
updateSearchForm ==
  /\ rev = "service"
  /\ \E data \in FormEdits :
       store' = [store EXCEPT
                   !.state = flightReducer(@, Action("SET_SEARCH_FORM_DATA", data))]
  /\ UNCHANGED <<rev, now, tz, flightVars, airportVars, pureVars, hook>>

\* The dispatches of the other components: setSortBy, clearResults
OtherActions == { Action("SET_SORT_BY", "duration"), Action("CLEAR_RESULTS", "") }

dispatchOther ==
  /\ rev = "service"
  /\ \E action \in OtherActions :
       store' = [store EXCEPT !.state = flightReducer(@, action)]
  /\ UNCHANGED <<rev, now, tz, flightVars, airportVars, pureVars, hook>>

\* The filters a user sets
FilterEdits == { [stops |-> <<0>>] }

\* updateFilters(filters)
updateFilters ==
  /\ rev = "service"
  /\ \E filters \in FilterEdits :
       store' = [store EXCEPT !.state = flightReducer(@, Action("SET_FILTERS", filters))]
  /\ UNCHANGED <<rev, now, tz, flightVars, airportVars, pureVars, hook>>

\* The actions a component may hand to the dispatch of the context value, beside
\* those the provider's own functions send
DispatchedActions ==
  { Action("SET_LOADING", TRUE), Action("SET_LOADING", FALSE), Action("SET_ERROR", "null") }

\* dispatch(action), called on the context value by a component
dispatch ==
  /\ rev = "service"
  /\ \E action \in DispatchedActions :
       store' = [store EXCEPT !.state = flightReducer(@, action)]
  /\ UNCHANGED <<rev, now, tz, flightVars, airportVars, pureVars, hook>>

\* handleSubmit up to its return (the form is invalid) or its await: the button is
\* disabled while isSearching
handleSubmit ==
  /\ rev = "service"
  /\ store.submit = "idle"
  /\ ~store.isSearching
  /\ LET form  == store.state.searchFormData
         error == validateForm(form, now, tz)
     IN IF error # "null"
        THEN /\ store' = [store EXCEPT
                            !.state = flightReducer(@, Action("SET_ERROR", error))]
             /\ UNCHANGED <<rev, now, tz, flightVars, airportVars, pureVars>>
        ELSE /\ store' = [store EXCEPT
                            !.isSearching = TRUE,
                            !.searchStatus = "Searching for flights...",
                            !.state = flightReducer(
                                        flightReducer(@, Action("SET_LOADING", TRUE)),
                                        Action("SET_ERROR", "")),
                            !.statusTimeout = "armed",
                            !.closure = [searchAttempts |-> store.searchAttempts,
                                         searchFormData |-> form],
                            !.submit = "searching"]
             /\ callSearchFlights(submitParams(form))
  /\ UNCHANGED hook

\* The 8-second timer of handleSubmit fires
statusTimeoutFires ==
  /\ store.statusTimeout = "armed"
  /\ store' = [store EXCEPT
                 !.searchStatus = "This is taking a bit longer than usual... Please wait",
                 !.statusTimeout = "fired"]
  /\ UNCHANGED <<rev, now, tz, flightVars, airportVars, pureVars, hook>>

\* handleSubmit from the settling of flightApi.searchFlights to its end: the try
\* block after the await or the catch block, then the finally block
submitSettles ==
  /\ store.submit = "searching"
  /\ pc = "done"
  /\ LET suggestions == getSuggestions(store.closure.searchAttempts,
                                       store.closure.searchFormData)
         tried ==
           IF outcome.kind = "returned"
           THEN IF Len(outcome.value.itineraries) = 0
                THEN [store EXCEPT
                        !.statusTimeout = "none",
                        !.state = flightReducer(@, Action("SET_ERROR",
                                                          emptyResultMessage(suggestions))),
                        !.searchAttempts = @ + 1]
                ELSE [store EXCEPT
                        !.statusTimeout = "none",
                        !.state = flightReducer(@, Action("SET_SEARCH_RESULTS",
                                                          outcome.value)),
                        !.searchAttempts = 0,
                        !.searchStatus = ""]
           ELSE [store EXCEPT
                   !.state = flightReducer(@, Action("SET_ERROR",
                                                     caughtMessage(outcome.error,
                                                                   suggestions))),
                   !.searchAttempts = @ + 1]
     IN store' = [tried EXCEPT
                    !.isSearching = FALSE,
                    !.searchStatus = "",
                    !.state = flightReducer(@, Action("SET_LOADING", FALSE)),
                    !.submit = "settled"]
  /\ UNCHANGED <<rev, now, tz, flightVars, airportVars, pureVars, hook>>

InitSubmit ==
  /\ Init
  /\ rev = "service"
  /\ now = EpochDay * 24 + 2
  /\ tz = 0

\* The requests of the submitted search settle with one of SampleOutcomes
submitPrimarySettles == primarySettlesWith(SampleOutcomes)

submitAlternativeSettles == alternativeSettlesWith(SampleOutcomes)

NextSubmit ==
  \/ updateSearchForm
  \/ updateFilters
  \/ dispatchOther
  \/ dispatch
  \/ handleSubmit
  \/ statusTimeoutFires
  \/ submitPrimarySettles
  \/ tick
  \/ backoffElapsed
  \/ submitAlternativeSettles
  \/ submitSettles

\* The search form filled in and submitted once, the search it starts, and the other
\* components dispatching meanwhile
SpecSubmit == InitSubmit /\ [][NextSubmit]_vars

\* One call on the service object: a flight search, an airport lookup or a check
\* of the API key
NextCalls ==
  \/ (apc = "idle" /\ Next)
  \/ (pc = "idle" /\ NextAirports)

SpecCalls == Init /\ [][NextCalls]_vars

(***************************************************************************)
(* handleError applied on its own to an AxiosError                         *)
(***************************************************************************)
\* HTTP statuses of a failed exchange: the four of the errorMap and three others
ErrorStatuses == {401, 403, 429, 500, 400, 404, 502}

\* The AxiosErrors: with a response (status, body message or none), or without
AxiosErrors ==
  { [hasResponse |-> TRUE, status |-> st, bodyMessage |-> bm, hasRequest |-> rq,
     message |-> "Request failed"] :
      st \in ErrorStatuses, bm \in {"", "Not found"}, rq \in BOOLEAN }
    \cup
  { [hasResponse |-> FALSE, status |-> 0, bodyMessage |-> "", hasRequest |-> rq,
     message |-> m] :
      rq \in BOOLEAN, m \in {"Network Error", "timeout of 30000ms exceeded"} }

InitErrors ==
  /\ rev \in {"service", "unnamed"}
  /\ now = EpochDay * 24
  /\ tz = 0
  /\ Idle
  /\ arg \in {[fn |-> "handleError", input |-> e] : e \in AxiosErrors}
  /\ ret = NoRet

\* The rejection handler of the response interceptor, FlightService.ts
callHandleError ==
  /\ rev = "service"
  /\ arg.fn = "handleError"
  /\ ~ret.done
  /\ ret' = [done |-> TRUE, value |-> handleError(arg.input)]
  /\ UNCHANGED <<rev, now, tz, flightVars, airportVars, arg, uiVars>>

\* The rejection handler of the response interceptor, unnamed/part_000
callHandleError_p0 ==
  /\ rev = "unnamed"
  /\ arg.fn = "handleError"
  /\ ~ret.done
  /\ ret' = [done |-> TRUE, value |-> handleError_p0(arg.input)]
  /\ UNCHANGED <<rev, now, tz, flightVars, airportVars, arg, uiVars>>

NextErrors ==
  \/ callHandleError
  \/ callHandleError_p0

SpecErrors == InitErrors /\ [][NextErrors]_vars

(***************************************************************************)
(* transformFlights applied on its own to a payload                        *)
(***************************************************************************)
NullLeg == [isNull |-> TRUE]
NoPlace == [present |-> FALSE, id |-> "", name |-> "", city |-> "", country |-> ""]
GoodLeg == Leg("leg-1", "2030-01-01T10:00", 480, "BA")

NullItinerary    == [isNull |-> TRUE]
ItinTwoLegs      == Itinerary("it-5", List(<<Leg("leg-5a", "2030-01-01T06:00", 120, "BA"),
                                             Leg("leg-5b", "2030-01-01T09:00", 200, "AA")>>),
                              Price(560))
ItinEmptyLegs    == Itinerary("it-6", List(<<>>), Price(300))
ItinNoPrice      == Itinerary("it-7", List(<<GoodLeg>>), NoPrice)
ItinNoRaw        == Itinerary("it-8", List(<<GoodLeg>>),
                              [present |-> TRUE, raw |-> JsUndefined,
                               currency |-> "USD", formatted |-> "$420"])
ItinTextRaw      == Itinerary("it-17", List(<<GoodLeg>>),
                              [present |-> TRUE, raw |-> JsText("420", 420, FALSE),
                               currency |-> "USD", formatted |-> ""])
ItinZeroPrice    == Itinerary("it-9", List(<<GoodLeg>>), Price(0))
ItinZeroDuration == Itinerary("it-10", List(<<Leg("leg-10", "2030-01-01T10:00", 0, "BA")>>),
                              Price(99))
ItinNoArrival    == Itinerary("it-11", List(<<[GoodLeg EXCEPT !.arrival = ""]>>), Price(130))
ItinNoPlaces     == Itinerary("it-12", List(<<[GoodLeg EXCEPT !.origin = NoPlace,
                                                              !.destination = NoPlace]>>),
                              Price(140))
ItinNoDestination == Itinerary("it-13", List(<<[GoodLeg EXCEPT !.destination = NoPlace]>>),
                               Price(150))
ItinNoPlaceIds   == Itinerary("it-14", List(<<[GoodLeg EXCEPT !.origin = Place("", "Heathrow"),
                                                              !.destination = Place("", "Kennedy")]>>),
                              Price(160))
ItinNullLeg      == Itinerary("it-15", List(<<NullLeg>>), Price(170))
ItinBadSecondLeg == Itinerary("it-16", List(<<GoodLeg, [GoodLeg EXCEPT !.origin = NoPlace,
                                                                       !.destination = NoPlace]>>),
                              Price(180))

\* The raw itineraries a batch is made of
RawItineraries ==
  { ItinOK, ItinTwoLegs, ItinNoLegs, ItinEmptyLegs, ItinNoId, ItinNoPrice, ItinNoRaw,
    ItinZeroPrice, ItinZeroDuration, ItinNoDeparture, ItinNoArrival, ItinNoPlaces,
    ItinNoDestination, ItinNoPlaceIds, ItinNullLeg, ItinBadSecondLeg, ItinTextRaw,
    NullItinerary }

Batches == SeqsUpTo(RawItineraries, MaxBatch)

\* The payloads handed to transformFlights: every shape of Payloads, a flagged
\* payload with a searchId, and every batch under data.data.itineraries
NormalizerPayloads ==
  Payloads
    \cup {[Payload("false", "", NoList, NoList, NoList) EXCEPT !.searchId = "sid-9"]}
    \cup {Payload("true", "complete", List(<<>>), List(<<ItinOK>>), NoList),
          Payload("true", "complete", List(<<>>), NoList, List(<<ItinTwoLegs>>)),
          Payload("true", "complete", NoList, List(<<>>), List(<<ItinOK>>)),
          Payload("true", "complete", NoList, List(<<ItinOK>>), List(<<ItinTwoLegs>>))}
    \cup {Payload("true", "complete", List(b), NoList, NoList) : b \in Batches}

\* The payloads transformFlights of unnamed/part_000 is called with: it is private
\* and its one call, in searchFlights, comes after response.data.status === false
\* has thrown, which a null body (a TypeError on .status) and a flagged one do
reachesTransformFlights_p0(data) == ~data.isNull /\ data.status # "false"

\* transformFlights of FlightService.ts tests the flag itself (data?.status === false)
\* and is applied to every payload
InitNormalize ==
  /\ rev \in {"service", "unnamed"}
  /\ now = EpochDay * 24
  /\ tz = 0
  /\ Idle
  /\ arg \in {[fn |-> "transformFlights", input |-> d] :
               d \in {e \in NormalizerPayloads :
                        rev = "unnamed" => reachesTransformFlights_p0(e)}}
  /\ ret = NoRet

\* transformFlights(data) of FlightService.ts; nonce holds the readings of
\* Date.now() and Math.random() during the call
callTransformFlights ==
  /\ rev = "service"
  /\ arg.fn = "transformFlights"
  /\ ~ret.done
  /\ \E nonce \in NoncesFor(arg.input) :
       ret' = [done |-> TRUE, value |-> transformFlights(arg.input, nonce), nonce |-> nonce,
               payload |-> payloadAfter(arg.input, nonce)]
  /\ UNCHANGED <<rev, now, tz, flightVars, airportVars, arg, uiVars>>

\* transformFlights(data) of unnamed/part_000
callTransformFlights_p0 ==
  /\ rev = "unnamed"
  /\ arg.fn = "transformFlights"
  /\ ~ret.done
  /\ ret' = [done |-> TRUE, value |-> transformFlights_p0(arg.input),
             nonce |-> <<>>, payload |-> arg.input]
  /\ UNCHANGED <<rev, now, tz, flightVars, airportVars, arg, uiVars>>

NextNormalize ==
  \/ callTransformFlights
  \/ callTransformFlights_p0

SpecNormalize == InitNormalize /\ [][NextNormalize]_vars

\* A second transformFlights(data) on the same payload object, FlightService.ts
repeatTransformFlights ==
  /\ rev = "service"
  /\ arg.fn = "transformFlights"
  /\ ret.done
  /\ "second" \notin DOMAIN ret
  /\ \E nonce \in NoncesFor(ret.payload) :
       ret' = [done |-> TRUE, value |-> ret.value, nonce |-> ret.nonce,
               payload |-> payloadAfter(ret.payload, nonce),
               second |-> transformFlights(ret.payload, nonce)]
  /\ UNCHANGED <<rev, now, tz, flightVars, airportVars, arg, uiVars>>

\* A second transformFlights(data) on the same payload object, unnamed/part_000
repeatTransformFlights_p0 ==
  /\ rev = "unnamed"
  /\ arg.fn = "transformFlights"
  /\ ret.done
  /\ "second" \notin DOMAIN ret
  /\ ret' = [done |-> TRUE, value |-> ret.value, nonce |-> ret.nonce,
             payload |-> ret.payload, second |-> transformFlights_p0(ret.payload)]
  /\ UNCHANGED <<rev, now, tz, flightVars, airportVars, arg, uiVars>>

NextRepeat ==
  \/ callTransformFlights
  \/ callTransformFlights_p0
  \/ repeatTransformFlights
  \/ repeatTransformFlights_p0

SpecRepeat == InitNormalize /\ [][NextRepeat]_vars

(***************************************************************************)
(* buildFilterStats applied on its own to a list of normalized flights     *)
(***************************************************************************)
\* A normalized flight as far as buildFilterStats reads it
Flight(duration, amount, names) ==
  [duration |-> duration,
   price |-> [amount |-> JsNumber(amount)],
   legs |-> [k \in 1..Len(names) |-> [airline |-> [name |-> names[k]]]],
   stops |-> Len(names) - 1]

Flights ==
  { Flight(d, a, n) :
      d \in {0, 90, 480}, a \in {0, 120, 300},
      n \in {<<"BA">>, <<"Unknown">>, <<"AA", "BA">>, <<"">>} }

InitStats ==
  /\ rev \in {"service", "unnamed"}
  /\ now = EpochDay * 24
  /\ tz = 0
  /\ Idle
  /\ arg \in {[fn |-> "buildFilterStats", input |-> fl] : fl \in SeqsUpTo(Flights, MaxFlights)}
  /\ ret = NoRet

\* buildFilterStats(flights), the same code in both revisions
callBuildFilterStats ==
  /\ arg.fn = "buildFilterStats"
  /\ ~ret.done
  /\ ret' = [done |-> TRUE, value |-> buildFilterStats(arg.input)]
  /\ UNCHANGED <<rev, now, tz, flightVars, airportVars, arg, uiVars>>

NextStats == callBuildFilterStats

SpecStats == InitStats /\ [][NextStats]_vars

(***************************************************************************)
(* Properties                                                              *)
(***************************************************************************)
IsPrimaryCall(c)  == c.phase = "primary"
IsFallbackCall(c) == c.phase = "fallback"
PrimaryCalls  == SelectSeq(calls, IsPrimaryCall)
FallbackCalls == SelectSeq(calls, IsFallbackCall)

\* The number of itineraries of the normalized result of a response body (it does not
\* depend on the clock or on the random value)
NormalizedCount(data) ==
  Len(transformFlights(data, CHOOSE nonce \in NoncesFor(data) : TRUE).itineraries)

\* The last settled request was primary attempt n of FlightService.ts and brought a
\* response body without the provider's failure flag
PrimaryBody(n) ==
  /\ rev = "service"
  /\ lastResponse.phase = "primary"
  /\ lastResponse.n = n
  /\ lastResponse.out.kind = "response"
  /\ (lastResponse.out.data.isNull \/ lastResponse.out.data.status # "false")

\* A response body whose context status is "incomplete" and whose itinerary list (the
\* list the normalizer locates) is empty
IncompleteAndEmpty(data) ==
  /\ ~data.isNull
  /\ data.hasData
  /\ data.ctxStatus = "incomplete"
  /\ Len(locateItineraries(data).items) = 0

\* C1: after primary attempt n < 3 got an incomplete response with an empty itinerary
\* list, no request is issued while the backoff of n * 2 seconds (n * 2000 ms) is
\* pending, and the next request is primary attempt n + 1 with the parameters of
\* attempt n, issued once at least n * 2000 ms have elapsed; a search that returns
\* from attempt 3 returns the normalized body of attempt 3 after exactly two delays,
\* 2000 ms then 4000 ms.
C1_BackoffThenNextAttempt ==
  /\ \A n \in 1..2 :
       (PrimaryBody(n) /\ IncompleteAndEmpty(lastResponse.out.data)) =>
         \/ /\ pc = "backoff"
            /\ timer.delay = n * 2 * 1000
            /\ Len(calls) = n
            /\ Len(sleeps) = n - 1
         \/ /\ pc = "primary"
            /\ attempt = n + 1
            /\ Len(calls) = n + 1
            /\ calls[n + 1] = [phase |-> "primary", n |-> n + 1, params |-> calls[n].params]
            /\ Len(sleeps) = n
            /\ sleeps[n].ms = n * 2 * 1000
            /\ sleeps[n].waited >= n * 2 * 1000
  /\ (PrimaryBody(3) /\ outcome.kind = "returned") =>
       /\ Len(sleeps) = 2
       /\ sleeps[1].ms = 2000 /\ sleeps[1].waited >= 2000
       /\ sleeps[2].ms = 4000 /\ sleeps[2].waited >= 4000
       /\ Len(calls) = 3
       /\ \A i \in 1..3 : calls[i] = [phase |-> "primary", n |-> i,
                                      params |-> calls[1].params]
       /\ \E nonce \in NoncesFor(lastResponse.out.data) :
            outcome.value = transformFlights(lastResponse.out.data, nonce)

\* C1 witness: attempt 3 brought one valid itinerary and the search returned it after
\* the two backoffs
C1_Witness ==
  /\ PrimaryBody(3)
  /\ pc = "done"
  /\ outcome.kind = "returned"
  /\ Len(outcome.value.itineraries) = 1
  /\ outcome.value.itineraries[1].id = "it-1"
  /\ Len(sleeps) = 2

\* C2: when primary attempt 3 got an incomplete response with an empty itinerary
\* list, the search has failed with SEARCH_INCOMPLETE and exactly three requests, all
\* primary, have been issued; no primary request ever carries a number above 3.
C2_IncompleteAfterLastAttempt ==
  /\ (PrimaryBody(3) /\ IncompleteAndEmpty(lastResponse.out.data)) =>
       /\ pc = "done"
       /\ outcome.kind = "failed"
       /\ outcome.error.code = "SEARCH_INCOMPLETE"
       /\ Len(calls) = 3
       /\ FallbackCalls = <<>>
  /\ \A i \in 1..Len(calls) : calls[i].phase = "primary" => calls[i].n <= 3

\* C2 witness: the third attempt brought an incomplete, empty response
C2_Witness ==
  /\ PrimaryBody(3)
  /\ IncompleteAndEmpty(lastResponse.out.data)
  /\ outcome.kind = "failed"
  /\ outcome.error.code = "SEARCH_INCOMPLETE"

\* C3: a search that ended with SEARCH_INCOMPLETE issued no fallback request; and when
\* the primary path raises SEARCH_INCOMPLETE (an incomplete response that is not
\* retried and whose normalized result is empty), the search ends there with that
\* error, status 202, and without any fallback request.
C3_IncompleteNeverFallsBack ==
  /\ (outcome.kind = "failed" /\ outcome.error.code = "SEARCH_INCOMPLETE") =>
       /\ FallbackCalls = <<>>
       /\ outcome.error.classified
       /\ outcome.error.status = 202
  /\ \A n \in 1..3 :
       ( /\ PrimaryBody(n)
         /\ contextStatusOf(lastResponse.out.data) = "incomplete"
         /\ (itinerariesLengthOf(lastResponse.out.data) # 0 \/ n = 3)
         /\ NormalizedCount(lastResponse.out.data) = 0 ) =>
           /\ pc = "done"
           /\ outcome.kind = "failed"
           /\ outcome.error.code = "SEARCH_INCOMPLETE"
           /\ outcome.error.status = 202
           /\ FallbackCalls = <<>>

\* C3 witness: the first attempt brought an incomplete response whose only itinerary
\* normalization drops, and the search failed there with SEARCH_INCOMPLETE
C3_Witness ==
  /\ PrimaryBody(1)
  /\ itinerariesLengthOf(lastResponse.out.data) = 1
  /\ pc = "done"
  /\ outcome.kind = "failed"
  /\ outcome.error.code = "SEARCH_INCOMPLETE"
  /\ Len(calls) = 1

\* The request parameters of the three fallback variants, from the primary request:
\* (a) entity ids set to the origin/destination id + "ENTY", (b) entity ids removed,
\* (c) date adjusted
VariantOf(k, primary) ==
  CASE k = 1 -> [primary EXCEPT !.originEntityId = primary.originSkyId \o "ENTY",
                                !.destinationEntityId = primary.destinationSkyId \o "ENTY"]
    [] k = 2 -> [primary EXCEPT !.originEntityId = "", !.destinationEntityId = ""]
    [] k = 3 -> [primary EXCEPT !.date = adjustDate(primary.date, now)]

\* C4: a primary response whose normalized result is empty and whose context status
\* is not "incomplete" starts the fallback with variant (a); the fallback requests
\* follow all primary requests and are variants (a), (b), (c) in that order, each at
\* most once; and when a variant's normalized result has an itinerary, that result is
\* returned and no later variant has been requested.
C4_FallbackOrderAndShortCircuit ==
  /\ \A n \in 1..3 :
       ( /\ PrimaryBody(n)
         /\ contextStatusOf(lastResponse.out.data) # "incomplete"
         /\ NormalizedCount(lastResponse.out.data) = 0 ) =>
           /\ pc = "fallback"
           /\ altIndex = 1
           /\ Len(calls) = n + 1
           /\ calls[n + 1] = [phase |-> "fallback", n |-> 1,
                              params |-> VariantOf(1, calls[1].params)]
  /\ Len(FallbackCalls) <= 3
  /\ calls = PrimaryCalls \o FallbackCalls
  /\ \A k \in 1..Len(FallbackCalls) :
       FallbackCalls[k] = [phase |-> "fallback", n |-> k,
                           params |-> VariantOf(k, calls[1].params)]
  /\ ( /\ lastResponse.phase = "fallback"
       /\ lastResponse.out.kind = "response"
       /\ NormalizedCount(lastResponse.out.data) > 0 ) =>
         /\ pc = "done"
         /\ outcome.kind = "returned"
         /\ \E nonce \in NoncesFor(lastResponse.out.data) :
              outcome.value = transformFlights(lastResponse.out.data, nonce)
         /\ Len(FallbackCalls) = lastResponse.n

\* C4 witness: variant (a) came back empty and variant (b) brought the result returned
C4_Witness ==
  /\ lastResponse.phase = "fallback"
  /\ lastResponse.n = 2
  /\ pc = "done"
  /\ outcome.kind = "returned"
  /\ Len(outcome.value.itineraries) > 0
  /\ Len(FallbackCalls) = 2
  /\ params.originEntityId # ""

\* A fallback outcome that yields no itinerary: a failed request, or a body whose
\* normalized result is empty
YieldsNothing(out) == out.kind = "error" \/ NormalizedCount(out.data) = 0

\* C5: after fallback variant k yielded nothing (an empty result or any failed
\* request), the next variant has been requested if k < 3, and if k = 3 the search has
\* failed with NO_FLIGHTS_FOUND after exactly three fallback requests.
C5_FallbackExhausted ==
  (lastResponse.phase = "fallback" /\ YieldsNothing(lastResponse.out)) =>
    IF lastResponse.n < 3
    THEN /\ pc = "fallback"
         /\ altIndex = lastResponse.n + 1
         /\ Len(FallbackCalls) = lastResponse.n + 1
    ELSE /\ pc = "done"
         /\ outcome.kind = "failed"
         /\ outcome.error.code = "NO_FLIGHTS_FOUND"
         /\ outcome.error.status = 404
         /\ Len(FallbackCalls) = 3

\* C5 witness: the third variant was refused with 401 and the search failed with
\* NO_FLIGHTS_FOUND
C5_Witness ==
  /\ lastResponse.phase = "fallback"
  /\ lastResponse.n = 3
  /\ lastResponse.out.kind = "error"
  /\ lastResponse.out.err.status = 401
  /\ outcome.kind = "failed"
  /\ outcome.error.code = "NO_FLIGHTS_FOUND"

\* C6 (as claimed): when a primary request fails at the transport level (no response,
\* a timeout, or an error response classified by the interceptor), fallback variants
\* are requested, so no error reaches the caller before a fallback request was issued.
C6_TransportFailureFallsBack ==
  ( /\ rev = "service"
    /\ lastResponse.phase = "primary"
    /\ lastResponse.out.kind = "error" ) => FallbackCalls # <<>>

\* The last settled request was a primary one and brought a body with the provider's
\* failure flag (status === false)
FlaggedPrimary ==
  /\ lastResponse.phase = "primary"
  /\ lastResponse.out.kind = "response"
  /\ ~lastResponse.out.data.isNull
  /\ lastResponse.out.data.status = "false"

\* C7: when a primary response carries the failure flag, the search has failed with a
\* classified error of the closed kind set (NO_FLIGHTS_FOUND in FlightService.ts,
\* API_ERROR in the other revision), and the flagged response's request is the last
\* one issued: no further primary attempt, no fallback request.
C7_FailureFlagFailsAtOnce ==
  FlaggedPrimary =>
    /\ pc = "done"
    /\ outcome.kind = "failed"
    /\ outcome.error.classified
    /\ outcome.error.code \in ErrorKinds
    /\ outcome.error.code = (IF rev = "service" THEN "NO_FLIGHTS_FOUND" ELSE "API_ERROR")
    /\ Len(calls) = lastResponse.n
    /\ FallbackCalls = <<>>

\* C7 witness: the second primary attempt of FlightService.ts brought the flag
C7_Witness ==
  /\ FlaggedPrimary
  /\ rev = "service"
  /\ lastResponse.n = 2
  /\ outcome.kind = "failed"
  /\ outcome.error.code = "NO_FLIGHTS_FOUND"

\* C8 (as claimed): when the payload has the failure flag set, searchFlights returns a
\* result with no itineraries and context.totalResults 0.
C8_FailureFlagReturnsEmpty ==
  (FlaggedPrimary /\ pc = "done") =>
    /\ outcome.kind = "returned"
    /\ outcome.value.itineraries = <<>>
    /\ outcome.value.context.totalResults = 0

\* C8 (amended): when the payload has the failure flag set, searchFlights returns no
\* result: it fails, with NO_FLIGHTS_FOUND in FlightService.ts and API_ERROR in the
\* other revision; the empty result with context.totalResults 0 is what transformFlights
\* of FlightService.ts makes of such a payload, whatever itineraries it carries.
C8_FailureFlagFailsTransformEmpty ==
  FlaggedPrimary =>
    /\ outcome.kind = "failed"
    /\ outcome.value = NoValue
    /\ outcome.error.code = (IF rev = "service" THEN "NO_FLIGHTS_FOUND" ELSE "API_ERROR")
    /\ \A nonce \in NoncesFor(lastResponse.out.data) :
         /\ transformFlights(lastResponse.out.data, nonce).itineraries = <<>>
         /\ transformFlights(lastResponse.out.data, nonce).context.totalResults = 0

\* C8 witness: a flagged payload that carries a valid itinerary all the same
C8_Witness ==
  /\ FlaggedPrimary
  /\ rev = "service"
  /\ lastResponse.out.data.nested.present
  /\ Len(lastResponse.out.data.nested.items) = 1
  /\ outcome.kind = "failed"

\* C9 (as claimed): once searchFlights of FlightService.ts has been called, a missing
\* origin id, destination id or date has given INVALID_PARAMS; otherwise INVALID_DATE
\* has been given exactly when the travel date is a calendar day before the current
\* local calendar day; neither rejection issued a request.
C9_PreValidation ==
  (rev = "service" /\ pc # "idle") =>
    LET missing == params.originSkyId = "" \/ params.destinationSkyId = ""
                     \/ params.date = 0
        invalidParams == outcome.kind = "failed" /\ outcome.error.code = "INVALID_PARAMS"
        invalidDate   == outcome.kind = "failed" /\ outcome.error.code = "INVALID_DATE"
    IN /\ missing => (invalidParams /\ calls = <<>>)
       /\ ~missing => (invalidDate <=> (params.date >= 1
                                          /\ params.date < LocalDay(now, tz)))
       /\ invalidDate => calls = <<>>

\* C10: a searchAirports call whose query is empty or shorter than 2 characters has
\* failed with INVALID_QUERY (status 400) and no request has been issued.
C10_ShortQueryRejected ==
  (apc # "idle" /\ Len(query) < 2) =>
    /\ apc = "done"
    /\ airports.kind = "failed"
    /\ airports.error.classified
    /\ airports.error.code = "INVALID_QUERY"
    /\ airports.error.status = 400
    /\ airportCalls = <<>>
    /\ calls = <<>>

\* C10 witness: searchAirports("a")
C10_Witness ==
  /\ query = "a"
  /\ apc = "done"
  /\ airports.kind = "failed"
  /\ airports.error.code = "INVALID_QUERY"
  /\ airportCalls = <<>>
(***************************************************************************)
(* C11: handleError maps a failed exchange to exactly one classified error *)
(* by priority: a response with status 401/403/429/500 gives UNAUTHORIZED/ *)
(* FORBIDDEN/RATE_LIMIT/SERVER_ERROR with that status; a response with     *)
(* another status gives API_ERROR with that status and the provider's      *)
(* message if present, else a generated one; a request without response    *)
(* gives NETWORK_ERROR; neither gives UNKNOWN_ERROR.  It returns (never    *)
(* throws), and a response wins over the no-response rules.                *)
(***************************************************************************)
FixedKind(status) ==
  CASE status = 401 -> "UNAUTHORIZED"
    [] status = 403 -> "FORBIDDEN"
    [] status = 429 -> "RATE_LIMIT"
    [] status = 500 -> "SERVER_ERROR"
    [] OTHER -> "API_ERROR"

C11_HandleErrorPriority ==
  (arg.fn = "handleError" /\ ret.done) =>
    LET e == arg.input
        r == ret.value
    IN /\ r.classified
       /\ r.code \in ErrorKinds
       /\ r.message # ""
       /\ e.hasResponse =>
            /\ r.code = FixedKind(e.status)
            /\ r.status = e.status
            /\ (r.code = "API_ERROR" /\ e.bodyMessage # "") => r.message = e.bodyMessage
            /\ (r.code = "API_ERROR" /\ e.bodyMessage = "") =>
                 r.message = "API error: " \o ToString(e.status)
       /\ (~e.hasResponse /\ e.hasRequest) => (r.code = "NETWORK_ERROR" /\ r.status = 0)
       /\ (~e.hasResponse /\ ~e.hasRequest) => (r.code = "UNKNOWN_ERROR" /\ r.status = 0)

\* A response with a status outside the errorMap, its request set, mapped to API_ERROR
C11_Witness ==
  /\ arg.fn = "handleError"
  /\ ret.done
  /\ arg.input.hasResponse
  /\ arg.input.hasRequest
  /\ arg.input.status = 404
  /\ arg.input.bodyMessage = "Not found"
  /\ ret.value.code = "API_ERROR"
  /\ ret.value.message = "Not found"

(***************************************************************************)
(* C12: whatever the provider answers and however the transport fails,     *)
(* every failure searchAirports or searchFlights hands to its caller is a  *)
(* FlightApiError whose kind is in the closed set ErrorKinds; nothing      *)
(* unclassified reaches the caller.                                        *)
(***************************************************************************)
C12_FailuresAreClassified ==
  /\ outcome.kind = "failed" =>
       (outcome.error.classified /\ outcome.error.code \in ErrorKinds)
  /\ airports.kind = "failed" =>
       (airports.error.classified /\ airports.error.code \in ErrorKinds)

\* A 2xx airport response whose handling raised something unclassified, surfaced
\* as SEARCH_ERROR
C12_Witness ==
  /\ apc = "done"
  /\ airportResponse.kind = "response"
  /\ ~invalidAirportBody(airportResponse.body)
  /\ airports.kind = "failed"
  /\ airports.error.code = "SEARCH_ERROR"

(***************************************************************************)
(* C13: a successful airport lookup over N raw records returns, in the     *)
(* original order, exactly the airports of the records cleanAirport        *)
(* accepts (so at most N), and a malformed record never makes the call     *)
(* fail; a record whose extracted code is not three uppercase letters or   *)
(* that has no display name is rejected, and every returned airport has an *)
(* iata of three uppercase letters.                                        *)
(***************************************************************************)
\* The code and the display name cleanAirport extracts from a raw record
ExtractedCode(rec) == OrElse(rec.skyId, OrElse(rec.navSkyId, OrElse(rec.iata, rec.code)))
ExtractedName(rec) == OrElse(rec.title, OrElse(rec.localizedName, rec.name))

Acceptable(rec) ==
  ~rec.isNull /\ isIataCode(ExtractedCode(rec)) /\ ExtractedName(rec) # <<>>

C13_AirportsCleaned ==
  (apc = "done" /\ airportResponse.kind = "response"
     /\ ~invalidAirportBody(airportResponse.body)) =>
    LET records  == airportResponse.body.list.items
        accepted == SelectSeq(records, Acceptable)
    IN /\ airports.kind = "returned"
       /\ Len(airports.value) = Len(accepted)
       /\ Len(airports.value) <= Len(records)
       /\ \A i \in 1..Len(airports.value) :
            /\ airports.value[i].iata = ExtractedCode(accepted[i])
            /\ isIataCode(airports.value[i].iata)
            /\ airports.value[i].name # <<>>

(***************************************************************************)
(* C14: transformFlights drops every itinerary of a batch that lacks a     *)
(* non-empty legs array, or a price object with a numeric raw amount, or   *)
(* an id; it does so without raising, and the other itineraries are        *)
(* normalized exactly as if the dropped one were absent.                   *)
(***************************************************************************)
\* The batch transformFlights was given under data.data.itineraries
IsBatchRun ==
  /\ arg.fn = "transformFlights"
  /\ ret.done
  /\ ~arg.input.isNull
  /\ arg.input.status # "false"
  /\ arg.input.hasData
  /\ arg.input.nested.present

RawBatch == arg.input.nested.items

LacksLegsPriceOrId(it) ==
  \/ it.isNull
  \/ it.id = ""
  \/ ~it.legs.present
  \/ Len(it.legs.items) = 0
  \/ ~it.price.present
  \/ it.price.raw.type # "number"

HasLegsPriceAndId(it) == ~LacksLegsPriceOrId(it)

\* The positions of the batch that hold a complete raw itinerary
CompletePositions ==
  SelectSeq([j \in 1..Len(RawBatch) |-> j], LAMBDA j : HasLegsPriceAndId(RawBatch[j]))

\* The same transformFlights call on the complete itineraries of the batch alone, the
\* clock and the random source answering for each as they did
SameCallOn(data) ==
  IF rev = "service"
  THEN transformFlights(data, [k \in 1..Len(CompletePositions) |->
                                 ret.nonce[CompletePositions[k]]])
  ELSE transformFlights_p0(data)

C14_IncompleteItinerariesDropped ==
  IsBatchRun =>
    LET complete == SelectSeq(RawBatch, HasLegsPriceAndId)
    IN /\ Len(ret.value.itineraries) <= Len(complete)
       /\ \A i \in 1..Len(ret.value.itineraries) :
            \E j \in 1..Len(complete) : ret.value.itineraries[i].id = complete[j].id
       /\ ret.value.itineraries =
            SameCallOn([arg.input EXCEPT !.nested.items = complete]).itineraries

(***************************************************************************)
(* C15: if a leg of an itinerary fails leg normalization (a leg without    *)
(* departure timestamp, for one), transformFlights drops the whole         *)
(* itinerary, never returning it with a subset of its legs, and drops only *)
(* that one: the otherwise valid itineraries of the batch all appear in    *)
(* the result.                                                             *)
(***************************************************************************)
\* A raw leg that lacks what leg normalization requires: the identifiers of origin
\* and destination, the departure and arrival timestamps
LegIncomplete(leg) ==
  \/ leg.isNull
  \/ ~leg.origin.present
  \/ leg.origin.id = ""
  \/ ~leg.destination.present
  \/ leg.destination.id = ""
  \/ leg.departure = ""
  \/ leg.arrival = ""

HasIncompleteLeg(it) ==
  /\ HasLegsPriceAndId(it)
  /\ \E k \in 1..Len(it.legs.items) : LegIncomplete(it.legs.items[k])

\* A raw itinerary with nothing wrong: complete, every leg complete, sellable
OtherwiseValid(it) ==
  /\ HasLegsPriceAndId(it)
  /\ ~HasIncompleteLeg(it)
  /\ it.price.raw.num > 0
  /\ \E k \in 1..Len(it.legs.items) : it.legs.items[k].durationInMinutes > 0

C15_BadLegDropsWholeItinerary ==
  IsBatchRun =>
    /\ \A j \in 1..Len(RawBatch) :
         HasIncompleteLeg(RawBatch[j]) =>
           ~\E i \in 1..Len(ret.value.itineraries) :
               ret.value.itineraries[i].id = RawBatch[j].id
    /\ \A j \in 1..Len(RawBatch) :
         OtherwiseValid(RawBatch[j]) =>
           \E i \in 1..Len(ret.value.itineraries) :
              /\ ret.value.itineraries[i].id = RawBatch[j].id
              /\ Len(ret.value.itineraries[i].legs) = Len(RawBatch[j].legs.items)

(***************************************************************************)
(* C16: every leg of every itinerary in a result of transformFlights has a *)
(* non-empty origin identifier, destination identifier, departure          *)
(* timestamp and arrival timestamp; a raw leg lacking one is never emitted.*)
(***************************************************************************)
C16_EmittedLegsComplete ==
  (arg.fn = "transformFlights" /\ ret.done) =>
    \A i \in 1..Len(ret.value.itineraries) :
      \A k \in 1..Len(ret.value.itineraries[i].legs) :
        LET leg == ret.value.itineraries[i].legs[k]
        IN /\ leg.origin.iata # ""
           /\ leg.destination.iata # ""
           /\ leg.departure # ""
           /\ leg.arrival # ""

(***************************************************************************)
(* C17: every itinerary transformItinerary produces has a non-empty legs   *)
(* sequence in the order of the raw legs, stops = legs.length - 1,         *)
(* isDirectFlight = (stops = 0) and duration = the sum of its legs'        *)
(* durations; the three are derived, not read from the raw itinerary.      *)
(***************************************************************************)
RECURSIVE MinutesOf(_)
MinutesOf(legs) ==
  IF Len(legs) = 0 THEN 0
  ELSE MinutesOf(SubSeq(legs, 1, Len(legs) - 1)) + legs[Len(legs)].duration

\* The raw itineraries of the batch an emitted itinerary may stem from
RawOf(flight) ==
  {j \in 1..Len(RawBatch) : ~RawBatch[j].isNull /\ RawBatch[j].id = flight.id}

C17_DerivedFields ==
  IsBatchRun =>
    \A i \in 1..Len(ret.value.itineraries) :
      LET flight == ret.value.itineraries[i]
      IN /\ Len(flight.legs) >= 1
         /\ flight.stops = Len(flight.legs) - 1
         /\ flight.isDirectFlight = (flight.stops = 0)
         /\ flight.duration = MinutesOf(flight.legs)
         /\ \A j \in RawOf(flight) :
              /\ Len(flight.legs) = Len(RawBatch[j].legs.items)
              /\ \A k \in 1..Len(flight.legs) :
                   /\ flight.legs[k].id = RawBatch[j].legs.items[k].id
                   /\ flight.legs[k].duration = RawBatch[j].legs.items[k].durationInMinutes

\* A two-leg itinerary normalized: one stop, not direct, 120 + 200 minutes
C17_Witness ==
  /\ IsBatchRun
  /\ \E i \in 1..Len(ret.value.itineraries) :
       /\ ret.value.itineraries[i].id = "it-5"
       /\ Len(ret.value.itineraries[i].legs) = 2
       /\ ret.value.itineraries[i].legs[1].id = "leg-5a"
       /\ ret.value.itineraries[i].legs[2].id = "leg-5b"
       /\ ret.value.itineraries[i].stops = 1
       /\ ~ret.value.itineraries[i].isDirectFlight
       /\ ret.value.itineraries[i].duration = 320

(***************************************************************************)
(* C18: every itinerary in the list of a result of transformFlights has    *)
(* duration > 0 and price amount > 0; those that pass validation with zero *)
(* duration or zero price are left out of the list but counted in          *)
(* context.totalResults, which is the number of validation survivors and   *)
(* at least the length of the list.                                        *)
(***************************************************************************)
\* The raw itineraries of the batch that the revision's transformItinerary accepts
Survivors ==
  IF rev = "service"
  THEN SelectSeq([j \in 1..Len(RawBatch) |-> transformItinerary(RawBatch[j], ret.nonce[j])], IsOk)
  ELSE SelectSeq([j \in 1..Len(RawBatch) |-> transformItinerary_p0(RawBatch[j])], IsOk)

C18_PostFilter ==
  IsBatchRun =>
    /\ \A i \in 1..Len(ret.value.itineraries) :
         /\ ret.value.itineraries[i].duration > 0
         /\ IsPositiveValue(ret.value.itineraries[i].price.amount)
    /\ ret.value.context.totalResults = Len(Survivors)
    /\ ret.value.context.totalResults >= Len(ret.value.itineraries)

(***************************************************************************)
(* C19: transformFlights never raises, whatever the payload: when the      *)
(* payload carries the provider failure flag, or none of the three         *)
(* locations (data.data.itineraries, data.itineraries, data.results) holds *)
(* an array, it returns a well-formed empty result: no itineraries, the    *)
(* zero-range and empty-set filter stats, totalResults 0 and the payload's *)
(* searchId if present.                                                    *)
(***************************************************************************)
PayloadSearchId(data) == IF data.isNull THEN "" ELSE data.searchId

C19_EmptyOnFlagOrNoList ==
  (arg.fn = "transformFlights" /\ ret.done) =>
    /\ ret.value.status = "success"
    /\ ret.value.context.totalResults >= 0
    /\ ( \/ (~arg.input.isNull /\ arg.input.status = "false")
         \/ ~locateItineraries(arg.input).present ) =>
         /\ ret.value.itineraries = <<>>
         /\ ret.value.filterStats = emptyFilterStats
         /\ ret.value.context.totalResults = 0
         /\ ret.value.context.searchId = PayloadSearchId(arg.input)

\* A flagged payload whose itinerary list holds an itinerary, normalized to the
\* empty result
C19_Witness ==
  /\ rev = "service"
  /\ arg.fn = "transformFlights"
  /\ ret.done
  /\ arg.input.status = "false"
  /\ ret.value.itineraries = <<>>
  /\ ret.value.context.totalResults = 0
  /\ locateItineraries(arg.input).present
  /\ Len(locateItineraries(arg.input).items) > 0
  /\ ret.value.filterStats = emptyFilterStats

(***************************************************************************)
(* C20: buildFilterStats depends on the flight list alone: the duration    *)
(* range is [min, max] over the flights with duration > 0, else [0, 0];    *)
(* the price range likewise over the flights with price > 0; airlines is   *)
(* the list of distinct leg airline names, without "Unknown" and without   *)
(* empty strings, in order of first occurrence; stops is the list of       *)
(* distinct stop counts in order of first occurrence; the empty list gives *)
(* duration [0,0], price [0,0], airlines [], stops [].                     *)
(***************************************************************************)
\* [min, max] over the positive numbers of S, [0, 0] when there is none
RangeOver(S) ==
  LET pos == {x \in S : x > 0}
  IN IF pos = {} THEN [min |-> 0, max |-> 0]
     ELSE [min |-> CHOOSE x \in pos : \A y \in pos : x <= y,
           max |-> CHOOSE x \in pos : \A y \in pos : x >= y]

\* The position at which x first occurs in s
FirstAt(x, s) == CHOOSE i \in 1..Len(s) : s[i] = x /\ \A j \in 1..(i - 1) : s[j] # x

\* out lists the elements of s that are in Keep, each once, by first occurrence
ListsDistinct(out, s, Keep) ==
  /\ {out[i] : i \in 1..Len(out)} = {s[i] : i \in 1..Len(s)} \cap Keep
  /\ \A a, b \in 1..Len(out) : a < b => FirstAt(out[a], s) < FirstAt(out[b], s)

\* The airline names of all legs of all flights, in order
RECURSIVE LegNames(_)
LegNames(flights) ==
  IF Len(flights) = 0 THEN <<>>
  ELSE [k \in 1..Len(Head(flights).legs) |-> Head(flights).legs[k].airline.name]
         \o LegNames(Tail(flights))

C20_FilterStats ==
  (arg.fn = "buildFilterStats" /\ ret.done) =>
    LET flights == arg.input
        names   == LegNames(flights)
        counts  == [i \in 1..Len(flights) |-> flights[i].stops]
    IN /\ ret.value.duration = RangeOver({flights[i].duration : i \in 1..Len(flights)})
       /\ ret.value.price = RangeOver({flights[i].price.amount.num : i \in 1..Len(flights)})
       /\ ListsDistinct(ret.value.airlines, names,
                        {names[i] : i \in 1..Len(names)} \ {"Unknown", ""})
       /\ ListsDistinct(ret.value.stops, counts, {counts[i] : i \in 1..Len(counts)})
       /\ flights = <<>> =>
            ret.value = [duration |-> [min |-> 0, max |-> 0],
                         price |-> [min |-> 0, max |-> 0],
                         airlines |-> <<>>, stops |-> <<>>]

\* Two flights, the first with duration and price 0 and an unnamed airline
C20_Witness ==
  /\ arg.fn = "buildFilterStats"
  /\ ret.done
  /\ arg.input = <<Flight(0, 0, <<"Unknown">>), Flight(90, 120, <<"AA", "BA">>)>>
  /\ ret.value.duration = [min |-> 90, max |-> 90]
  /\ ret.value.price = [min |-> 120, max |-> 120]
  /\ ret.value.airlines = <<"AA", "BA">>
  /\ ret.value.stops = <<0, 1>>

(***************************************************************************)
(* C21: transformFlights called twice on the same raw payload yields two   *)
(* identical results, also for payloads with itineraries or legs lacking   *)
(* an id: the result depends on the payload only, not on the clock, on     *)
(* random values or on an earlier call.                                    *)
(***************************************************************************)
C21_Idempotent ==
  (arg.fn = "transformFlights" /\ ret.done /\ "second" \in DOMAIN ret) =>
    ret.second = ret.value

(***************************************************************************)
(* C27: transformFlights leaves the raw payload unchanged: after the call  *)
(* every raw itinerary has the id, the price and the other fields it had   *)
(* before, also when it lacked an id or a price.                           *)
(***************************************************************************)
C27_PayloadUnchanged ==
  (arg.fn = "transformFlights" /\ ret.done) => ret.payload = arg.input

(***************************************************************************)
(* C23: transformFlights takes the itinerary list from the first of the    *)
(* three locations (data.data.itineraries, data.itineraries, data.results) *)
(* that holds a non-empty sequence: when an earlier location holds an      *)
(* empty array and a later one a non-empty array, the itineraries of the   *)
(* later one are normalized and returned.                                  *)
(***************************************************************************)
\* The three locations in order, and the first of them with a non-empty array
Locations(data) ==
  <<IF data.hasData THEN data.nested ELSE NoList, data.itineraries, data.results>>

FirstNonEmpty(data) ==
  LET locs == Locations(data)
      hits == {k \in 1..3 : locs[k].present /\ Len(locs[k].items) > 0}
  IN IF hits = {} THEN NoList
     ELSE locs[CHOOSE k \in hits : \A m \in hits : k <= m]

C23_FirstNonEmptyLocation ==
  (arg.fn = "transformFlights" /\ ret.done /\ ~arg.input.isNull
     /\ arg.input.status # "false") =>
    ret.value.itineraries =
      SameCallOn([arg.input EXCEPT !.hasData = TRUE,
                                   !.nested = FirstNonEmpty(arg.input),
                                   !.itineraries = NoList,
                                   !.results = NoList]).itineraries

(***************************************************************************)
(* C24: searchFlights fails with SEARCH_INCOMPLETE only after all three    *)
(* primary attempts have been made: no run ends with SEARCH_INCOMPLETE     *)
(* after attempt 1 or 2, also when an "incomplete" response carries a      *)
(* non-empty raw itinerary list whose itineraries normalization all drops. *)
(***************************************************************************)
C24_IncompleteOnlyAfterThreeAttempts ==
  ( /\ rev = "service"
    /\ pc = "done"
    /\ outcome.kind = "failed"
    /\ outcome.error.code = "SEARCH_INCOMPLETE" ) =>
      Len(PrimaryCalls) = maxAttempts

(***************************************************************************)
(* C28 as stated: no fallback variant sends the request parameters of the  *)
(* primary request of the same search; each of (a), (b), (c) differs from  *)
(* it in a parameter, also when the caller gave no entity ids and when the *)
(* travel date is a day or more from now.                                  *)
(***************************************************************************)
C28_VariantsDifferFromPrimary ==
  \A k \in 1..Len(FallbackCalls) : FallbackCalls[k].params # calls[1].params

\* The travel date of the primary request is less than one day from now
DateWithinADay(req) == req.date > 0 /\ req.date * 24 < now + 24

(***************************************************************************)
(* C28, amended: variant (a) carries as entity ids the sky ids followed by *)
(* ENTY, so it repeats the primary request exactly when the caller's       *)
(* entity ids already were those, and else differs from it in each entity  *)
(* id that was not; variant (b) repeats the primary request exactly when   *)
(* the caller gave no entity id; variant (c) repeats it exactly when the   *)
(* travel date is a day or more from now (or is no date), and else carries *)
(* the date of the day eight days from now.                                *)
(***************************************************************************)
C28_VariantsRepeatPrimaryWhenNothingToChange ==
  \A k \in 1..Len(FallbackCalls) :
    LET primary == calls[1].params
        variant == FallbackCalls[k].params
    IN /\ k = 1 => /\ variant.originEntityId = primary.originSkyId \o "ENTY"
                   /\ variant.destinationEntityId = primary.destinationSkyId \o "ENTY"
                   /\ variant = primary <=>
                        /\ primary.originEntityId = primary.originSkyId \o "ENTY"
                        /\ primary.destinationEntityId
                             = primary.destinationSkyId \o "ENTY"
                   /\ \A f \in DOMAIN primary \ {"originEntityId", "destinationEntityId"} :
                        variant[f] = primary[f]
       /\ k = 2 => ( variant = primary <=>
                       (primary.originEntityId = "" /\ primary.destinationEntityId = "") )
       /\ k = 3 => /\ variant = primary <=> ~DateWithinADay(primary)
                   /\ DateWithinADay(primary) => variant.date * 24 = ((now + 192) \div 24) * 24

\* A search without entity ids for a date two days ahead whose variants (b) and (c)
\* were sent with the parameters of the primary request
C28_Witness ==
  /\ pc = "done"
  /\ Len(FallbackCalls) = 3
  /\ calls[1].params.originEntityId = ""
  /\ calls[1].params.date = EpochDay + 2
  /\ FallbackCalls[1].params # calls[1].params
  /\ FallbackCalls[2].params = calls[1].params
  /\ FallbackCalls[3].params = calls[1].params

(***************************************************************************)
(* C26: in a result of transformFlights with at least one itinerary the    *)
(* filter stats agree with the list: every itinerary's price amount lies   *)
(* within [price.min, price.max], its duration within [duration.min,       *)
(* duration.max], its stop count is in stops, and min <= max in both.      *)
(***************************************************************************)
C26_StatsCoverTheList ==
  (arg.fn = "transformFlights" /\ ret.done /\ Len(ret.value.itineraries) > 0) =>
    LET stats == ret.value.filterStats
    IN /\ stats.price.min <= stats.price.max
       /\ stats.duration.min <= stats.duration.max
       /\ \A i \in 1..Len(ret.value.itineraries) :
            LET flight == ret.value.itineraries[i]
            IN /\ stats.price.min <= flight.price.amount.num
               /\ flight.price.amount.num <= stats.price.max
               /\ stats.duration.min <= flight.duration
               /\ flight.duration <= stats.duration.max
               /\ \E k \in 1..Len(stats.stops) : stats.stops[k] = flight.stops

(***************************************************************************)
(* C25: every searchFlights invocation ends, by returning a result or      *)
(* failing with a classified error, provided each of its requests settles; *)
(* along a run it issues at most 3 primary and at most 3 fallback requests *)
(* (6 in all), and none after it has returned or failed.                   *)
(***************************************************************************)
Ended ==
  /\ pc = "done"
  /\ \/ outcome.kind = "returned"
     \/ (outcome.kind = "failed" /\ outcome.error.classified)

C25_TerminatesWithinSixRequests ==
  /\ [](Len(PrimaryCalls) <= 3 /\ Len(FallbackCalls) <= 3 /\ Len(calls) <= 6)
  /\ [][pc = "done" => calls' = calls]_vars
  /\ [](pc = "done" => Ended)
  /\ (pc # "idle") ~> Ended

\* A search that used its three primary attempts and its three fallback variants
C25_Witness ==
  /\ Ended
  /\ Len(PrimaryCalls) = 3
  /\ Len(FallbackCalls) = 3
  /\ Len(sleeps) = 2

(***************************************************************************)
(* C22: while a flight search waits in a backoff delay between two primary *)
(* attempts, another operation of the process (a searchAirports call       *)
(* started in parallel) can start, make progress and complete; the delay   *)
(* suspends only the chain of the waiting search, whose timer runs on and  *)
(* which issues no request meanwhile.                                      *)
(***************************************************************************)
\* The requests the first call has issued are its primary attempts so far
OnlyPrimaryCalls ==
  /\ Len(calls) = attempt
  /\ \A i \in 1..Len(calls) : calls[i].phase = "primary" /\ calls[i].n = i

\* Every operation beside the waiting search can take its next step
OthersCanRun ==
  /\ apc = "idle" => ENABLED parallelSearchAirports
  /\ apc = "pending" => ENABLED parallelAirportsSettle
  /\ second.pc = "idle" => ENABLED secondSearchFlights
  /\ second.pc = "primary" => ENABLED secondPrimarySettles
  /\ second.pc = "fallback" => ENABLED secondAlternativeSettles
  /\ (second.pc = "backoff" /\ second.timer.elapsed >= second.timer.delay) =>
       ENABLED secondBackoffElapsed

\* C22: while the first search rests in a backoff delay every other operation can
\* take its next step and the waiting search has issued its primary attempts only;
\* a retry is always started from that rest, by the timer's callback once the delay
\* has elapsed; and the steps of the other operations leave the waiting search as
\* it is.
C22_BackoffDoesNotBlockOthers ==
  /\ [](pc = "backoff" => (OthersCanRun /\ OnlyPrimaryCalls))
  /\ [][attempt' > attempt /\ attempt >= 1 =>
          pc = "backoff" /\ timer.elapsed >= timer.delay]_vars
  /\ [][(pc = "backoff" /\ (second' # second \/ airportVars' # airportVars)) =>
          (firstVars' = firstVars \/ (pc' = "backoff" /\ calls' = calls))]_vars

\* A second search and a lookup, both started after the first search had entered
\* its first delay, have returned their flights and airports before that delay has
\* elapsed
C22_Witness ==
  /\ pc = "backoff"
  /\ attempt = 1
  /\ timer.elapsed < timer.delay
  /\ Len(calls) = 1
  /\ second.pc = "done"
  /\ second.outcome.kind = "returned"
  /\ Len(second.outcome.value.itineraries) > 0
  /\ apc = "done"
  /\ Len(airportCalls) = 1
  /\ airports.kind = "returned"
  /\ Len(airports.value) > 0

(***************************************************************************)
(* C29: when two airport lookups are started through the useAirportSearch  *)
(* hook and their responses arrive in any order, once both have settled    *)
(* the hook's airports list holds the result of the lookup started last;   *)
(* and isLoading is true as long as at least one lookup is still in flight.*)
(***************************************************************************)
InFlight(l) == l.awaited /\ ~l.settled

ResultOf(l) == IF l.result.ok THEN l.result.value ELSE <<>>

TwoLookupsSettled ==
  /\ Len(hook.lookups) = 2
  /\ \A i \in 1..2 : hook.lookups[i].awaited /\ hook.lookups[i].settled

C29_LastLookupWins ==
  /\ TwoLookupsSettled => hook.airports = ResultOf(hook.lookups[2])
  /\ (\E i \in 1..Len(hook.lookups) : InFlight(hook.lookups[i])) => hook.isLoading

(***************************************************************************)
(* C30: from the moment handleSubmit has dispatched its start-of-search    *)
(* actions and called flightApi.searchFlights until that call settles, the *)
(* shared flight state has isLoading = TRUE; isLoading becomes FALSE only  *)
(* once the search has returned or failed.                                 *)
(***************************************************************************)
C30_LoadingWhileSearching ==
  store.submit = "searching" => store.state.isLoading

====
